---------------------------- MODULE Spec2Model ----------------------------
(***************************************************************************)
(* Pirate-Downloader: the concurrent chunked-download engine               *)
(* (core/engine.rs), its control block and registry                        *)
(* (commands/download_control.rs), the lifecycle record (core/state.rs),   *)
(* the state file (core/persistence.rs) and the integrity gate             *)
(* (core/integrity.rs), for one download id.                               *)
(*                                                                         *)
(* Every shared access of the code (an atomic load or store, one mutex     *)
(* critical section, one file-system call) is one step of the task that    *)
(* makes it; tasks run on a multi-threaded runtime, so steps of different  *)
(* tasks interleave freely.                                                *)
(***************************************************************************)
EXTENDS Integers, Sequences, FiniteSets, TLC

(***************************************************************************)
(* Bounds of the model.  A specification fixes, in its initial state, the  *)
(* download it follows (total_size, thread_count) and what the environment *)
(* may do (commands, resumes, handlers in flight, fetch faults, monitor    *)
(* ticks).                                                                 *)
(***************************************************************************)
\* most workers an engine run spawns, and most engine runs, in any specification
MaxThreads == 2
MaxRuns == 3
\* most command handlers in flight at the same time, in any specification
MaxInFlight == 2
\* Spec: total_size (one short chunk) and thread_count of the download
SpecTotalSize == 100
SpecThreads == 1
\* Spec: command invocations, accepted resumes among them, handlers in flight
SpecCommands == 2
SpecResumes == 1
SpecInFlight == 1
\* Spec: failed fetch attempts injected, and monitor ticks that go on to sync
SpecFaults == 1
SpecTicks == 1
RaceCommands == 4
RaceInFlight == 2
\* ResumeRaceSpec: command invocations and accepted resumes among them
ResumeRaceCommands == 3
ResumeRaceResumes == 2
\* RetrySpec: failed fetch attempts injected, enough to exhaust one lease
RetryFaults == 5
\* EngineSpec: total_size (two chunks, the last one short), thread_count,
\* failed fetch attempts injected and monitor ticks; no command is invoked
EngineTotalSize == 524388
EngineThreads == 2
EngineFaults == 5
EngineTicks == 1
\* SingleSpec: failed fetch attempts injected and monitor ticks; the download is
\* that of Spec (one chunk) with 1 .. MaxThreads workers
SingleFaults == 5
SingleTicks == 1
\* ProbeSpec: the largest Content-Length the server reports and the largest
\* `threads` argument of download_file
ProbeMaxLength == 8
ProbeMaxThreads == 2
\* PureSpec: the sizes given to calculate_chunk_size are q MiB + r bytes, for q
\* around the tier boundaries (the last one twice the top boundary) and r one of
\* 0, 1, 1 MiB - 1
TopSize == 20480
\* PersistSpec: calls of the persistence functions made one after the other
PersistCalls == 4
\* PureSpec: the largest chunk tally handed to verify_download
VerifyMaxChunks == 2
\* PartialSpec: a download of two chunks that is paused, stopped, resumed
PartialThreads == 1
PartialFaults == 1
\* SlowSpec: the chunk whose range the server serves below the speed floor
SlowChunk == 0

(***************************************************************************)
(* Program constants.                                                      *)
(***************************************************************************)
CHUNK_RETRY_LIMIT == 5
ADAPTIVE_RETRY_THRESHOLD == 3

\* signal values of DownloadControl
SIG_RUN == 0
SIG_PAUSE == 1
SIG_STOP == 2
SIG_CANCEL == 3

\* download_file: the worker count used when `threads` is 0
LEGACY_DEFAULT_THREADS == 8

(***************************************************************************)
(* State.                                                                  *)
(***************************************************************************)
VARIABLES
    \* metadata.total_size and metadata.thread_count of the download
    total_size, thread_count,
    \* the chunks whose range the server serves below SPEED_ENFORCEMENT_THRESHOLD
    \* for longer than SPEED_ENFORCEMENT_DELAY, every time they are requested
    slow_chunks,
    \* DownloadManager.active_downloads[id]: the registered metadata or NoMeta
    active_downloads,
    \* DownloadManager.download_controls[id] is present
    registered,
    \* DownloadControl fields
    signal, downloaded_bytes, completed_chunks, generation,
    \* <filepath>.state: the saved metadata or NoMeta; <filepath> exists
    state_file, part_file,
    \* per engine run: position, generation argument, metadata argument, the
    \* signal value read after the join, the returned status
    run,
    \* per engine run: the work queue and the lease count of each chunk
    chunk_queue, chunk_retry_counts,
    \* per worker task: position, leased index, attempts made, enforce_speed
    worker,
    \* per monitor task: position, bytes read, metadata clone, abort requested
    monitor,
    \* per command handler in flight: command, position, local metadata clone
    cmd,
    \* what the environment has left to do
    commands_left, resumes_left, slots_open, faults_left, ticks_left,
    \* cancel_download has returned Ok
    cancel_ok,
    \* per engine run: the values carried by its download-progress events, in the
    \* order they are emitted
    progress_events,
    \* the one-shot command download_file of lib.rs: position, arguments, locals,
    \* what it has done to its output file, result
    legacy,
    \* a caller of the library functions: the last call it made, the arguments
    \* and the value returned
    call

(***************************************************************************)
(* Pure functions.                                                         *)
(***************************************************************************)
\* A u64 byte count can exceed the integers of the model checker (10 GiB does):
\* <<q, r>> with 0 <= r < 1 MiB stands for q * 1024 * 1024 + r.
MiB == 1024 * 1024
U64(n) == <<n \div MiB, n % MiB>>
U64MiB(q) == <<q, 0>>
Narrow(a) == a[1] * MiB + a[2]
U64Less(a, b) == a[1] < b[1] \/ (a[1] = b[1] /\ a[2] < b[2])
U64Leq(a, b) == a = b \/ U64Less(a, b)

\* an off-by-one at the boundaries: <= for <
calculate_chunk_size_inclusive(size) ==
    IF U64Leq(size, U64MiB(100)) THEN U64(512 * 1024)
    ELSE IF U64Leq(size, U64MiB(1 * 1024)) THEN U64MiB(4)
    ELSE IF U64Leq(size, U64MiB(10 * 1024)) THEN U64MiB(16)
    ELSE U64MiB(64)

\* calculate_chunk_size on u64: the thresholds 100 * 1024 * 1024,
\* 1 * 1024 * 1024 * 1024 and 10 * 1024 * 1024 * 1024 counted in MiB
calculate_chunk_size_u64(size) ==
    IF U64Less(size, U64MiB(100)) THEN U64(512 * 1024)
    ELSE IF U64Less(size, U64MiB(1 * 1024)) THEN U64MiB(4)
    ELSE IF U64Less(size, U64MiB(10 * 1024)) THEN U64MiB(16)
    ELSE U64MiB(64)

\* the same on a size that fits the model checker's integers
calculate_chunk_size(size) == Narrow(calculate_chunk_size_u64(U64(size)))

chunk_size == calculate_chunk_size(total_size)

total_chunks == (total_size + chunk_size - 1) \div chunk_size

\* start = idx * chunk_size
ChunkStart(idx) == idx * chunk_size

\* the clamp left out
ChunkEndUnclamped(idx) ==
    LET end == ChunkStart(idx) + chunk_size - 1
    IN  end

\* end = start + chunk_size - 1, clamped to total_size - 1
ChunkEnd(idx) ==
    LET end == ChunkStart(idx) + chunk_size - 1
    IN  IF end >= total_size THEN total_size - 1 ELSE end

\* expected_bytes = end - start + 1
ExpectedBytes(idx) == ChunkEnd(idx) - ChunkStart(idx) + 1

\* the check its doc comment describes: all chunks completed and all bytes
\* downloaded
verify_download_counted(bytes, size, completed_count, chunk_count) ==
    ~(bytes < size) /\ completed_count = chunk_count

\* integrity::verify_download: Ok iff not (downloaded_bytes < total_size)
verify_download(bytes, size, completed_count, chunk_count) ==
    ~(bytes < size)

\* resumable from every state in which no engine run is working
can_resume_inactive(st) == st \in {"Paused", "Stopped", "Failed"}

\* DownloadState predicates
can_resume(st) == st \in {"Paused", "Stopped"}
is_terminal(st) == st \in {"Completed", "Failed", "Cancelled"}
is_active(st) == st = "Active"

\* Vec::contains
Contains(s, x) == \E i \in 1 .. Len(s) : s[i] = x

\* Vec::retain(|id| !completed.contains(id))
RECURSIVE Retain(_, _)
Retain(s, completed) ==
    IF s = <<>> THEN <<>>
    ELSE IF Contains(completed, Head(s)) THEN Retain(Tail(s), completed)
         ELSE <<Head(s)>> \o Retain(Tail(s), completed)

\* (0..total_chunks).collect()
RECURSIVE UpTo(_)
UpTo(n) == IF n = 0 THEN <<>> ELSE Append(UpTo(n - 1), n - 1)

RECURSIVE SumSizes(_)
SumSizes(s) == IF s = <<>> THEN 0 ELSE ExpectedBytes(Head(s)) + SumSizes(Tail(s))

Range(s) == {s[i] : i \in 1 .. Len(s)}

NoDup(s) == \A i, j \in 1 .. Len(s) : i # j => s[i] # s[j]

NoMeta == [state |-> "None"]
NoChunk == -1

Runs == 0 .. (MaxRuns - 1)
Workers == Runs \X (1 .. MaxThreads)
Slots == 1 .. MaxInFlight

vars == <<total_size, thread_count, slow_chunks, active_downloads, registered, signal,
          downloaded_bytes, completed_chunks, generation, state_file, part_file,
          run, chunk_queue, chunk_retry_counts, worker, monitor, cmd,
          commands_left, resumes_left, slots_open, faults_left, ticks_left,
          cancel_ok, progress_events, legacy, call>>

\* what no task of the download manager writes
cfgVars == <<total_size, thread_count, slots_open, slow_chunks, legacy, call>>

ctlVars == <<signal, downloaded_bytes, completed_chunks, generation>>
fsVars == <<state_file, part_file>>
engineVars == <<run, chunk_queue, chunk_retry_counts, worker, monitor>>
envVars == <<commands_left, resumes_left, faults_left, ticks_left>>

\* verified, marked, removed: the run has called verify_download, has set its
\* metadata clone Completed and emitted "completed", has called remove_download;
\* incomplete: metadata.incomplete_chunks as handed to the run
IdleRun == [pc |-> "none", gen |-> 0, final_signal |-> 0, status |-> "none",
            meta |-> NoMeta, verified |-> FALSE, marked |-> FALSE,
            removed |-> FALSE, incomplete |-> <<>>]
\* new_bytes: old_bytes + expected_bytes, as computed at the fetch_add;
\* chunk_ok, bytes_this_attempt: the locals of the streaming loop when the test
\* after it has passed; stream_err: response.chunk() returned Err, which
\* unwrap_or(None) turned into the end of the body
IdleWorker == [pc |-> "none", idx |-> NoChunk, attempts |-> 0, enforce |-> FALSE,
               new_bytes |-> 0, chunk_ok |-> FALSE, bytes_this_attempt |-> 0,
               stream_err |-> FALSE]
IdleMonitor == [pc |-> "none", bytes |-> 0, meta |-> NoMeta, aborted |-> FALSE]
\* signal0: control.signal when a pause or stop handler was entered; bumped: the
\* value control.generation took at the handler's fetch_add.  Neither is read by
\* the handler; they record what the claims about it refer to.
IdleCmd == [kind |-> "none", pc |-> "idle", meta |-> NoMeta, signal0 |-> 0,
            bumped |-> 0]
\* content_length: response.content_length(), NoLength for None; started: the
\* download-start event was emitted; created, sized: the output file exists, has
\* length total_size; spawned: worker tasks spawned
NoLength == -1
\* n: calls made so far; saved: the metadata of the most recent save_state when
\* it returned Ok, NoMeta when it failed, when there was none and after the
\* file was deleted
NoCall == [op |-> "none", arg |-> <<>>, ret |-> <<>>, n |-> 0, saved |-> NoMeta]
IdleLegacy == [pc |-> "idle", threads |-> 0, content_length |-> NoLength,
               total_size |-> 0, started |-> FALSE, created |-> FALSE,
               sized |-> FALSE, spawned |-> 0, ret |-> "none"]

\* DownloadManager::new(): nothing registered, nothing on disk; the download
\* that will be started and the environment's budgets
InitManager(size, threads, commands, resumes, inflight, faults, ticks) ==
    /\ total_size = size
    /\ thread_count = threads
    /\ active_downloads = NoMeta
    /\ registered = FALSE
    /\ signal = SIG_RUN
    /\ downloaded_bytes = 0
    /\ completed_chunks = <<>>
    /\ generation = 0
    /\ state_file = NoMeta
    /\ part_file = FALSE
    /\ run = [r \in Runs |-> IdleRun]
    /\ chunk_queue = [r \in Runs |-> <<>>]
    /\ chunk_retry_counts = [r \in Runs |-> <<>>]
    /\ worker = [w \in Workers |-> IdleWorker]
    /\ monitor = [r \in Runs |-> IdleMonitor]
    /\ cmd = [s \in Slots |-> IdleCmd]
    /\ commands_left = commands
    /\ resumes_left = resumes
    /\ slots_open = inflight
    /\ faults_left = faults
    /\ ticks_left = ticks
    /\ cancel_ok = FALSE
    /\ progress_events = [r \in Runs |-> <<>>]
    /\ legacy = IdleLegacy
    /\ call = NoCall

\* the same, with a server that serves every range above the speed floor
InitWith(size, threads, commands, resumes, inflight, faults, ticks) ==
    /\ InitManager(size, threads, commands, resumes, inflight, faults, ticks)
    /\ slow_chunks = {}

Init ==
    InitWith(SpecTotalSize, SpecThreads, SpecCommands, SpecResumes, SpecInFlight,
             SpecFaults, SpecTicks)

(***************************************************************************)
(* start_download (command surface): registers the metadata and a fresh    *)
(* control block, allocates the file and runs the engine with generation 0.*)
(***************************************************************************)
\* DownloadMetadata::new(url, filepath, total_size, thread_count)
DownloadMetadata_new ==
    [state |-> "Pending", downloaded_bytes |-> 0, completed_chunks |-> <<>>,
     incomplete_chunks |-> <<>>]

NewMetadata ==
    [state |-> "Active", downloaded_bytes |-> 0, completed_chunks |-> <<>>,
     incomplete_chunks |-> UpTo(total_chunks)]

StartDownload ==
    /\ ~registered
    /\ registered' = TRUE
    /\ active_downloads' = NewMetadata
    /\ part_file' = TRUE
    /\ run' = [run EXCEPT ![0] = [IdleRun EXCEPT !.pc = "spawned", !.gen = 0,
                                                !.meta = NewMetadata]]
    /\ UNCHANGED <<cfgVars, ctlVars, state_file, chunk_queue, chunk_retry_counts,
                   worker, monitor, cmd, envVars, cancel_ok, progress_events>>

(***************************************************************************)
(* DownloadEngine::start, setup: the queue, the lease counts, the workers  *)
(* and the monitor.                                                        *)
(***************************************************************************)
\* the queue filled with every index of the download
EngineStartAllChunks(r) ==
    /\ run[r].pc = "spawned"
    /\ chunk_queue' = [chunk_queue EXCEPT ![r] = UpTo(total_chunks)]
    /\ chunk_retry_counts' =
         [chunk_retry_counts EXCEPT ![r] = [c \in 0 .. (total_chunks - 1) |-> 0]]
    /\ worker' = [w \in Workers |->
                    IF w[1] = r /\ w[2] <= thread_count
                    THEN [IdleWorker EXCEPT !.pc = "open"] ELSE worker[w]]
    /\ monitor' = [monitor EXCEPT ![r] = [IdleMonitor EXCEPT !.pc = "sleep"]]
    /\ run' = [run EXCEPT ![r].pc = "join", ![r].meta = NoMeta,
                          ![r].incomplete = run[r].meta.incomplete_chunks]
    /\ UNCHANGED <<cfgVars, active_downloads, registered, ctlVars, fsVars, cmd,
                   envVars, cancel_ok, progress_events>>

EngineStart(r) ==
    /\ run[r].pc = "spawned"
    /\ chunk_queue' = [chunk_queue EXCEPT ![r] = run[r].meta.incomplete_chunks]
    /\ chunk_retry_counts' =
         [chunk_retry_counts EXCEPT ![r] = [c \in 0 .. (total_chunks - 1) |-> 0]]
    /\ worker' = [w \in Workers |->
                    IF w[1] = r /\ w[2] <= thread_count
                    THEN [IdleWorker EXCEPT !.pc = "open"] ELSE worker[w]]
    /\ monitor' = [monitor EXCEPT ![r] = [IdleMonitor EXCEPT !.pc = "sleep"]]
    /\ run' = [run EXCEPT ![r].pc = "join", ![r].meta = NoMeta,
                          ![r].incomplete = run[r].meta.incomplete_chunks]
    /\ UNCHANGED <<cfgVars, active_downloads, registered, ctlVars, fsVars, cmd,
                   envVars, cancel_ok, progress_events>>

(***************************************************************************)
(* The worker task.                                                        *)
(***************************************************************************)
WorkerGoto(w, pc) == [worker EXCEPT ![w].pc = pc]

WorkerExit(w) == [worker EXCEPT ![w] = [IdleWorker EXCEPT !.pc = "done"]]

workerRest == <<cfgVars, active_downloads, registered, fsVars, run, monitor, cmd,
                commands_left, resumes_left, ticks_left, cancel_ok>>

workerFrame == <<workerRest, progress_events>>

\* OpenOptions::new().write(true).open(path): return when it fails
WorkerOpen(w) ==
    /\ worker[w].pc = "open"
    /\ worker' = IF part_file THEN WorkerGoto(w, "top") ELSE WorkerExit(w)
    /\ UNCHANGED <<workerFrame, ctlVars, chunk_queue, chunk_retry_counts, faults_left>>

\* the top-of-loop check left out: the worker goes on to lease
WorkerCheckSignalBlind(w) ==
    /\ worker[w].pc = "top"
    /\ worker' = WorkerGoto(w, "pop")
    /\ UNCHANGED <<workerFrame, ctlVars, chunk_queue, chunk_retry_counts, faults_left>>

\* 1. Check Signals (top of the main loop)
WorkerCheckSignal(w) ==
    /\ worker[w].pc = "top"
    /\ worker' = IF signal # SIG_RUN THEN WorkerExit(w) ELSE WorkerGoto(w, "pop")
    /\ UNCHANGED <<workerFrame, ctlVars, chunk_queue, chunk_retry_counts, faults_left>>

\* *count += 1.  The count saturates one above the threshold: the code reads
\* only retry_count < ADAPTIVE_RETRY_THRESHOLD, and a count above the threshold
\* tells a lease that follows one made at or above it
BumpRetry(count) ==
    IF count <= ADAPTIVE_RETRY_THRESHOLD THEN count + 1 ELSE count

\* the floor enforced up to and including the threshold
EnforceSpeedInclusive(retry_count) == retry_count <= ADAPTIVE_RETRY_THRESHOLD

\* enforce_speed = retry_count < ADAPTIVE_RETRY_THRESHOLD
EnforceSpeed(retry_count) == retry_count < ADAPTIVE_RETRY_THRESHOLD

\* front() for pop_front(): the index stays on the queue
WorkerLeasePeek(w) ==
    LET r == w[1]
        q == chunk_queue[r]
    IN  /\ worker[w].pc = "pop"
        /\ IF q = <<>>
           THEN /\ worker' = WorkerGoto(w, "idle")
                /\ UNCHANGED <<chunk_queue, chunk_retry_counts>>
           ELSE LET idx == Head(q)
                    retry_count == BumpRetry(chunk_retry_counts[r][idx])
                IN  /\ chunk_queue' = chunk_queue
                    /\ chunk_retry_counts' =
                         [chunk_retry_counts EXCEPT ![r][idx] = retry_count]
                    /\ worker' = [worker EXCEPT ![w] =
                         [IdleWorker EXCEPT !.pc = "attempt", !.idx = idx,
                                            !.enforce = EnforceSpeed(retry_count)]]
        /\ UNCHANGED <<workerFrame, ctlVars, faults_left>>

\* 2. Get Job: pop_front, then the lease count of the index
WorkerLease(w) ==
    LET r == w[1]
        q == chunk_queue[r]
    IN  /\ worker[w].pc = "pop"
        /\ IF q = <<>>
           THEN /\ worker' = WorkerGoto(w, "idle")
                /\ UNCHANGED <<chunk_queue, chunk_retry_counts>>
           ELSE LET idx == Head(q)
                    retry_count == BumpRetry(chunk_retry_counts[r][idx])
                IN  /\ chunk_queue' = [chunk_queue EXCEPT ![r] = Tail(q)]
                    /\ chunk_retry_counts' =
                         [chunk_retry_counts EXCEPT ![r][idx] = retry_count]
                    /\ worker' = [worker EXCEPT ![w] =
                         [IdleWorker EXCEPT !.pc = "attempt", !.idx = idx,
                                            !.enforce = EnforceSpeed(retry_count)]]
        /\ UNCHANGED <<workerFrame, ctlVars, faults_left>>

\* empty queue: leave when completed_count >= total_chunks, else sleep and loop
WorkerIdle(w) ==
    /\ worker[w].pc = "idle"
    /\ worker' = IF Len(completed_chunks) >= total_chunks
                 THEN WorkerExit(w) ELSE WorkerGoto(w, "top")
    /\ UNCHANGED <<workerFrame, ctlVars, chunk_queue, chunk_retry_counts, faults_left>>

\* attempt loop entry: attempts += 1, the signal check and the generation
\* check (both break out of the attempt loop), then the GET is sent.  The two
\* loads are one step: generation only grows, so reading it together with the
\* signal yields the same branch as reading it right after.
WorkerAttempt(w) ==
    /\ worker[w].pc = "attempt"
    /\ worker' = [worker EXCEPT ![w].attempts = @ + 1,
                                ![w].pc = IF signal # SIG_RUN THEN "after"
                                          ELSE IF generation # run[w[1]].gen
                                               THEN "after"
                                               ELSE "stream"]
    /\ UNCHANGED <<workerFrame, ctlVars, chunk_queue, chunk_retry_counts, faults_left>>

\* elapsed > SPEED_ENFORCEMENT_DELAY and speed < SPEED_ENFORCEMENT_THRESHOLD at
\* some slice of the body: what happens when the range is served slowly
TooSlow(idx) == idx \in slow_chunks

\* the ways the streaming loop of worker w can end: chunk_ok and
\* bytes_this_attempt after it, whether it ended by an Err of response.chunk(),
\* and whether the end is a failure of the server, the network or the disk.
\* A slice that arrives meets the signal check, then the speed enforcement, then
\* the write; a body that ends, or an Err in its place, ends the loop with
\* chunk_ok still true.
BodyOutcomes(w) ==
    LET expected_bytes == ExpectedBytes(worker[w].idx)
        Outcome(ok, bytes, err, fault) ==
            [chunk_ok |-> ok, bytes_this_attempt |-> bytes, stream_err |-> err,
             fault |-> fault]
    IN  IF signal # SIG_RUN
        THEN {Outcome(FALSE, 0, FALSE, FALSE)}
        ELSE IF worker[w].enforce /\ TooSlow(worker[w].idx)
             THEN {Outcome(FALSE, 0, FALSE, FALSE)}
             ELSE {Outcome(TRUE, expected_bytes, FALSE, FALSE),
                   Outcome(FALSE, 0, FALSE, TRUE),
                   Outcome(TRUE, expected_bytes, TRUE, TRUE)}
                    \cup {Outcome(TRUE, b, err, TRUE) :
                            b \in {expected_bytes - 1, expected_bytes + 1},
                            err \in BOOLEAN}

\* the request is in flight or the body is streaming.  Either the request
\* fails (send error, bad status, seek error), or the body streams and ends;
\* then the test chunk_ok && bytes_this_attempt == expected_bytes.
WorkerSlice(w) ==
    /\ worker[w].pc = "stream"
    /\ \/ /\ faults_left > 0
          /\ faults_left' = faults_left - 1
          /\ worker' = WorkerGoto(w, "failcheck")
       \/ \E o \in BodyOutcomes(w) :
             /\ IF o.fault
                THEN faults_left > 0 /\ faults_left' = faults_left - 1
                ELSE UNCHANGED faults_left
             /\ worker' =
                  IF o.chunk_ok
                       /\ o.bytes_this_attempt = ExpectedBytes(worker[w].idx)
                  THEN [worker EXCEPT
                          ![w].pc = "fetchadd", ![w].chunk_ok = o.chunk_ok,
                          ![w].bytes_this_attempt = o.bytes_this_attempt,
                          ![w].stream_err = o.stream_err]
                  ELSE WorkerGoto(w, "failcheck")
    /\ UNCHANGED <<workerFrame, ctlVars, chunk_queue, chunk_retry_counts>>

\* success: old_bytes = downloaded_bytes.fetch_add(expected_bytes);
\* new_bytes = old_bytes + expected_bytes
WorkerFetchAdd(w) ==
    /\ worker[w].pc = "fetchadd"
    /\ downloaded_bytes' = downloaded_bytes + ExpectedBytes(worker[w].idx)
    /\ worker' = [worker EXCEPT ![w].pc = "push",
                                ![w].new_bytes =
                                    downloaded_bytes + ExpectedBytes(worker[w].idx),
                                ![w].chunk_ok = FALSE,
                                ![w].bytes_this_attempt = 0,
                                ![w].stream_err = FALSE]
    /\ UNCHANGED <<workerFrame, signal, completed_chunks, generation, chunk_queue,
                   chunk_retry_counts, faults_left>>

\* app_handle.emit("download-progress", value)
emit_progress(r, value) ==
    progress_events' = [progress_events EXCEPT ![r] = Append(@, value)]

\* the index is not recorded
WorkerPushNothing(w) ==
    /\ worker[w].pc = "push"
    /\ completed_chunks' = completed_chunks
    /\ emit_progress(w[1], worker[w].new_bytes)
    /\ worker' = [worker EXCEPT ![w] = [IdleWorker EXCEPT !.pc = "top"]]
    /\ UNCHANGED <<workerRest, signal, downloaded_bytes, generation, chunk_queue,
                   chunk_retry_counts, faults_left>>

\* success: completed_chunks.lock().push(idx), then the progress event carrying
\* new_bytes; back to the top of the main loop.  The event is emitted with the
\* push: it touches no shared state, and the orders in which the workers' events
\* can come out are those in which their pushes can.
WorkerPush(w) ==
    /\ worker[w].pc = "push"
    /\ completed_chunks' = Append(completed_chunks, worker[w].idx)
    /\ emit_progress(w[1], worker[w].new_bytes)
    /\ worker' = [worker EXCEPT ![w] = [IdleWorker EXCEPT !.pc = "top"]]
    /\ UNCHANGED <<workerRest, signal, downloaded_bytes, generation, chunk_queue,
                   chunk_retry_counts, faults_left>>

\* the index put back on the queue at every failed attempt
WorkerBackoffRequeue(w) ==
    /\ worker[w].pc = "failcheck"
    /\ worker' = IF signal # SIG_RUN THEN WorkerGoto(w, "after")
                 ELSE IF worker[w].attempts < CHUNK_RETRY_LIMIT
                      THEN WorkerGoto(w, "attempt")
                      ELSE WorkerGoto(w, "after")
    /\ chunk_queue' = IF signal = SIG_RUN
                      THEN [chunk_queue EXCEPT ![w[1]] = Append(@, worker[w].idx)]
                      ELSE chunk_queue
    /\ UNCHANGED <<workerFrame, ctlVars, chunk_retry_counts, faults_left>>

\* the loop condition as attempts <= CHUNK_RETRY_LIMIT
WorkerBackoffInclusive(w) ==
    /\ worker[w].pc = "failcheck"
    /\ worker' = IF signal # SIG_RUN THEN WorkerGoto(w, "after")
                 ELSE IF worker[w].attempts <= CHUNK_RETRY_LIMIT
                      THEN WorkerGoto(w, "attempt")
                      ELSE WorkerGoto(w, "after")
    /\ UNCHANGED <<workerFrame, ctlVars, chunk_queue, chunk_retry_counts, faults_left>>

\* failed attempt: signal check, then the backoff sleep and the loop condition
WorkerBackoff(w) ==
    /\ worker[w].pc = "failcheck"
    /\ worker' = IF signal # SIG_RUN THEN WorkerGoto(w, "after")
                 ELSE IF worker[w].attempts < CHUNK_RETRY_LIMIT
                      THEN WorkerGoto(w, "attempt")
                      ELSE WorkerGoto(w, "after")
    /\ UNCHANGED <<workerFrame, ctlVars, chunk_queue, chunk_retry_counts, faults_left>>

\* the index is dropped whatever the signal
WorkerRequeueDrop(w) ==
    /\ worker[w].pc = "after"
    /\ chunk_queue' = chunk_queue
    /\ worker' = [worker EXCEPT ![w] = [IdleWorker EXCEPT !.pc = "top"]]
    /\ UNCHANGED <<workerFrame, ctlVars, chunk_retry_counts, faults_left>>

\* after the attempt loop without success: push_back(idx) when signal == 0
WorkerRequeue(w) ==
    /\ worker[w].pc = "after"
    /\ chunk_queue' = IF signal = SIG_RUN
                      THEN [chunk_queue EXCEPT ![w[1]] = Append(@, worker[w].idx)]
                      ELSE chunk_queue
    /\ worker' = [worker EXCEPT ![w] = [IdleWorker EXCEPT !.pc = "top"]]
    /\ UNCHANGED <<workerFrame, ctlVars, chunk_retry_counts, faults_left>>

(***************************************************************************)
(* The monitor task.                                                       *)
(***************************************************************************)
monitorFrame == <<cfgVars, registered, ctlVars, fsVars, run, chunk_queue,
                  chunk_retry_counts, worker, cmd, commands_left, resumes_left,
                  faults_left, cancel_ok, progress_events>>

MonitorExit(r) == [monitor EXCEPT ![r] = [IdleMonitor EXCEPT !.pc = "done"]]

\* an aborted task ends when it next yields, here at its sleep
MonitorSleep(r) ==
    IF monitor[r].aborted THEN MonitorExit(r)
    ELSE [monitor EXCEPT ![r] = [IdleMonitor EXCEPT !.pc = "sleep"]]

\* sleep(1000 ms), then the signal check
MonitorTick(r) ==
    /\ monitor[r].pc = "sleep"
    /\ IF signal # SIG_RUN
       THEN /\ monitor' = MonitorExit(r)
            /\ UNCHANGED ticks_left
       ELSE /\ ticks_left > 0
            /\ ticks_left' = ticks_left - 1
            /\ monitor' = [monitor EXCEPT ![r].pc = "bytes"]
    /\ UNCHANGED <<active_downloads, monitorFrame>>

\* bytes = downloaded_bytes.load()
MonitorLoad(r) ==
    /\ monitor[r].pc = "bytes"
    /\ monitor' = [monitor EXCEPT ![r].pc = "get", ![r].bytes = downloaded_bytes]
    /\ UNCHANGED <<active_downloads, ticks_left, monitorFrame>>

\* get_download: a clone of the registered metadata, its downloaded_bytes set
MonitorGet(r) ==
    /\ monitor[r].pc = "get"
    /\ monitor' = IF active_downloads = NoMeta THEN MonitorSleep(r)
                  ELSE [monitor EXCEPT ![r].pc = "upd",
                          ![r].meta = [active_downloads EXCEPT
                                         !.downloaded_bytes = monitor[r].bytes]]
    /\ UNCHANGED <<active_downloads, ticks_left, monitorFrame>>

\* update_download(id, meta): insert
MonitorUpdate(r) ==
    /\ monitor[r].pc = "upd"
    /\ active_downloads' = monitor[r].meta
    /\ monitor' = MonitorSleep(r)
    /\ UNCHANGED <<ticks_left, monitorFrame>>

(***************************************************************************)
(* DownloadEngine::start, termination.                                     *)
(***************************************************************************)
engineRest == <<cfgVars, registered, ctlVars, fsVars, chunk_queue,
                chunk_retry_counts, worker, cmd, envVars, cancel_ok>>

engineFrame == <<engineRest, progress_events>>

\* a slip in the match: stop reported as pause
SignalStatusSwapped(sig) ==
    IF sig = 1 \/ sig = 2 THEN "paused" ELSE "cancelled"

\* match signal { 1 => "paused", 2 => "stopped", _ => "cancelled" }
SignalStatus(sig) ==
    IF sig = 1 THEN "paused" ELSE IF sig = 2 THEN "stopped" ELSE "cancelled"

EngineReturn(r, status) == [run EXCEPT ![r].pc = "returned", ![r].status = status]

\* all workers joined; final_signal = signal.load(); return when it is nonzero
EngineJoin(r) ==
    /\ run[r].pc = "join"
    /\ \A w \in Workers : (w[1] = r /\ w[2] <= thread_count) => worker[w].pc = "done"
    /\ run' = IF signal # SIG_RUN
              THEN [EngineReturn(r, SignalStatus(signal)) EXCEPT
                      ![r].final_signal = signal]
              ELSE [run EXCEPT ![r].pc = "abort", ![r].final_signal = signal]
    /\ UNCHANGED <<active_downloads, monitor, engineFrame>>

\* monitor_handle.abort(); second signal check
EngineAbortMonitor(r) ==
    /\ run[r].pc = "abort"
    /\ monitor' = IF monitor[r].pc = "sleep" THEN MonitorExit(r)
                  ELSE IF monitor[r].pc = "done" THEN monitor
                  ELSE [monitor EXCEPT ![r].aborted = TRUE]
    /\ run' = IF signal # SIG_RUN
              THEN [EngineReturn(r, SignalStatus(signal)) EXCEPT
                      ![r].final_signal = signal]
              ELSE [run EXCEPT ![r].pc = "verify"]
    /\ UNCHANGED <<active_downloads, engineFrame>>

\* integrity::verify_download(final_bytes, total_size, final_completed_count,
\* total_chunks)?; app.emit("download-progress", total_size)
EngineVerify(r) ==
    /\ run[r].pc = "verify"
    /\ IF verify_download(downloaded_bytes, total_size,
                          Len(completed_chunks), total_chunks)
       THEN /\ run' = [run EXCEPT ![r].pc = "mark", ![r].verified = TRUE]
            /\ emit_progress(r, total_size)
       ELSE /\ run' = [EngineReturn(r, "error") EXCEPT ![r].verified = TRUE]
            /\ UNCHANGED progress_events
    /\ UNCHANGED <<active_downloads, monitor, engineRest>>

\* get_download; meta.complete(); meta.downloaded_bytes = total_size; emit
EngineMark(r) ==
    /\ run[r].pc = "mark"
    /\ run' = IF active_downloads = NoMeta
              THEN [run EXCEPT ![r].pc = "remove"]
              ELSE [run EXCEPT ![r].pc = "update", ![r].marked = TRUE,
                      ![r].meta = [active_downloads EXCEPT
                                     !.state = "Completed",
                                     !.downloaded_bytes = total_size]]
    /\ UNCHANGED <<active_downloads, monitor, engineFrame>>

\* manager.update_download(&download_id, meta)
EngineUpdate(r) ==
    /\ run[r].pc = "update"
    /\ active_downloads' = run[r].meta
    /\ run' = [run EXCEPT ![r].pc = "remove", ![r].meta = NoMeta]
    /\ UNCHANGED <<monitor, engineFrame>>

\* manager.remove_download(&download_id); Ok("completed")
EngineRemove(r) ==
    /\ run[r].pc = "remove"
    /\ active_downloads' = NoMeta
    /\ run' = [EngineReturn(r, "completed") EXCEPT ![r].removed = TRUE]
    /\ UNCHANGED <<monitor, engineFrame>>

EngineNext ==
    \/ StartDownload
    \/ \E r \in Runs : EngineStart(r)
    \/ \E w \in Workers : WorkerOpen(w)
    \/ \E w \in Workers : WorkerCheckSignal(w)
    \/ \E w \in Workers : WorkerLease(w)
    \/ \E w \in Workers : WorkerIdle(w)
    \/ \E w \in Workers : WorkerAttempt(w)
    \/ \E w \in Workers : WorkerSlice(w)
    \/ \E w \in Workers : WorkerFetchAdd(w)
    \/ \E w \in Workers : WorkerPush(w)
    \/ \E w \in Workers : WorkerBackoff(w)
    \/ \E w \in Workers : WorkerRequeue(w)
    \/ \E r \in Runs : MonitorTick(r)
    \/ \E r \in Runs : MonitorLoad(r)
    \/ \E r \in Runs : MonitorGet(r)
    \/ \E r \in Runs : MonitorUpdate(r)
    \/ \E r \in Runs : EngineJoin(r)
    \/ \E r \in Runs : EngineAbortMonitor(r)
    \/ \E r \in Runs : EngineVerify(r)
    \/ \E r \in Runs : EngineMark(r)
    \/ \E r \in Runs : EngineUpdate(r)
    \/ \E r \in Runs : EngineRemove(r)

(***************************************************************************)
(* The command handlers of commands/download_control.rs.  A handler in     *)
(* flight occupies a slot; its local `metadata` is cmd[s].meta.            *)
(***************************************************************************)
cmdFrame == <<cfgVars, registered, run, chunk_queue, chunk_retry_counts, worker,
              monitor, faults_left, ticks_left, progress_events>>

FreeSlot(s) ==
    /\ s <= slots_open
    /\ cmd[s].pc = "idle"
    /\ \A t \in Slots : t < s => cmd[t].pc # "idle"

CmdGoto(s, pc) == [cmd EXCEPT ![s].pc = pc]

CmdReturn(s) == [cmd EXCEPT ![s] = IdleCmd]

\* the handler found no entry, or the state check failed: it is about to
\* return Err(..) having written nothing
CmdReject(s, kind) ==
    /\ commands_left' = commands_left - 1
    /\ cmd' = [cmd EXCEPT ![s] = [IdleCmd EXCEPT !.kind = kind, !.pc = "error"]]

\* return Err(..)
CmdError(s) ==
    /\ cmd[s].pc = "error"
    /\ cmd' = CmdReturn(s)
    /\ UNCHANGED <<active_downloads, ctlVars, fsVars, cmdFrame, commands_left,
                   resumes_left, cancel_ok>>

DownloadState ==
    {"Pending", "Active", "Paused", "Stopped", "Completed", "Failed", "Cancelled"}

\* #[serde(rename_all = "lowercase")] on DownloadState
Lowercase(st) ==
    CASE st = "Pending" -> "pending"
      [] st = "Active" -> "active"
      [] st = "Paused" -> "paused"
      [] st = "Stopped" -> "stopped"
      [] st = "Completed" -> "completed"
      [] st = "Failed" -> "failed"
      [] st = "Cancelled" -> "cancelled"

\* the state written as the variant is spelled in the source
to_string_pretty_verbatim(meta) == meta

\* serde_json::to_string_pretty(metadata): the document has the fields of the
\* record, the numbers and the lists as they are and the state by its
\* lowercase name
to_string_pretty(meta) == [meta EXCEPT !.state = Lowercase(meta.state)]

\* serde_json::from_str(&json): the record whose state is the variant of that
\* lowercase name, an error for any other name
from_str(json) ==
    IF \E st \in DownloadState : Lowercase(st) = json.state
    THEN <<"Ok", [json EXCEPT !.state =
                    CHOOSE st \in DownloadState : Lowercase(st) = json.state]>>
    ELSE <<"Err", "Serialization">>

\* what fs::write leaves when it fails after creating the file: a document
\* cut short, which is no JSON object
Truncated == [state |-> ""]

\* save_state(&metadata): fs::write of the serialized record
save_state(meta) == state_file' = to_string_pretty(meta)

\* state_exists(filepath)
state_exists == state_file # NoMeta

\* load_state(filepath) when the file can be read
load_state ==
    IF ~state_exists THEN <<"Err", "StateNotFound">> ELSE from_str(state_file)

\* the state file left where it was
delete_state_keeps == UNCHANGED state_file

\* delete_state(&filepath): remove the state file if it exists
delete_state == state_file' = NoMeta

\* manager.update_download(id, metadata)
update_download(meta) == active_downloads' = meta

\* manager.remove_download(id): removes the metadata entry only
remove_download == active_downloads' = NoMeta

\* ---- pause_download ----------------------------------------------------
\* the is_active check left out
PauseBeginUnchecked(s) ==
    /\ FreeSlot(s)
    /\ commands_left > 0
    /\ IF active_downloads = NoMeta
       THEN CmdReject(s, "pause")
       ELSE /\ commands_left' = commands_left - 1
            /\ cmd' = [cmd EXCEPT ![s] = [IdleCmd EXCEPT !.kind = "pause",
                         !.pc = "bytes", !.signal0 = signal,
                         !.meta = [active_downloads EXCEPT !.state = "Paused"]]]
    /\ UNCHANGED <<active_downloads, ctlVars, fsVars, cmdFrame, resumes_left,
                   cancel_ok>>

\* get_download, the is_active check, metadata.pause()
PauseBegin(s) ==
    /\ FreeSlot(s)
    /\ commands_left > 0
    /\ IF active_downloads = NoMeta \/ ~is_active(active_downloads.state)
       THEN CmdReject(s, "pause")
       ELSE /\ commands_left' = commands_left - 1
            /\ cmd' = [cmd EXCEPT ![s] = [IdleCmd EXCEPT !.kind = "pause",
                         !.pc = "bytes", !.signal0 = signal,
                         !.meta = [active_downloads EXCEPT !.state = "Paused"]]]
    /\ UNCHANGED <<active_downloads, ctlVars, fsVars, cmdFrame, resumes_left,
                   cancel_ok>>

\* get_control; metadata.downloaded_bytes = control.downloaded_bytes.load()
SyncBytes(s, kind) ==
    /\ cmd[s].kind = kind
    /\ cmd[s].pc = "bytes"
    /\ cmd' = [cmd EXCEPT ![s].pc = "chunks",
                          ![s].meta.downloaded_bytes = downloaded_bytes]
    /\ UNCHANGED <<active_downloads, ctlVars, fsVars, cmdFrame, commands_left,
                   resumes_left, cancel_ok>>

\* completed = control.completed_chunks.lock().clone();
\* metadata.completed_chunks = completed; incomplete_chunks.retain(not in completed)
SyncChunks(s, kind) ==
    /\ cmd[s].kind = kind
    /\ cmd[s].pc = "chunks"
    /\ cmd' = [cmd EXCEPT ![s].pc = "signal",
                          ![s].meta.completed_chunks = completed_chunks,
                          ![s].meta.incomplete_chunks =
                              Retain(@, completed_chunks)]
    /\ UNCHANGED <<active_downloads, ctlVars, fsVars, cmdFrame, commands_left,
                   resumes_left, cancel_ok>>

\* control.signal.store(sig)
SetSignal(s, kind, sig) ==
    /\ cmd[s].kind = kind
    /\ cmd[s].pc = "signal"
    /\ signal' = sig
    /\ cmd' = CmdGoto(s, "save")
    /\ UNCHANGED <<active_downloads, downloaded_bytes, completed_chunks, generation,
                   fsVars, cmdFrame, commands_left, resumes_left, cancel_ok>>

\* save_state(&metadata)?: an error returns before the registry is updated
SaveOrFail(s, kind) ==
    /\ cmd[s].kind = kind
    /\ cmd[s].pc = "save"
    /\ \/ /\ save_state(cmd[s].meta)
          /\ cmd' = CmdGoto(s, "update")
       \/ /\ UNCHANGED state_file
          /\ cmd' = CmdReturn(s)
    /\ UNCHANGED <<active_downloads, ctlVars, part_file, cmdFrame, commands_left,
                   resumes_left, cancel_ok>>

\* manager.update_download(&download_id, metadata.clone()); emit; Ok(())
UpdateAndReturn(s, kind) ==
    /\ cmd[s].kind = kind
    /\ cmd[s].pc = "update"
    /\ update_download(cmd[s].meta)
    /\ cmd' = CmdReturn(s)
    /\ UNCHANGED <<ctlVars, fsVars, cmdFrame, commands_left, resumes_left,
                   cancel_ok>>

PauseSyncBytes(s) == SyncBytes(s, "pause")
PauseSyncChunks(s) == SyncChunks(s, "pause")
PauseSetSignal(s) == SetSignal(s, "pause", SIG_PAUSE)
PauseSave(s) == SaveOrFail(s, "pause")
PauseUpdate(s) == UpdateAndReturn(s, "pause")

\* ---- stop_download -----------------------------------------------------
\* get_download, metadata.stop(): no check of the current state
StopBegin(s) ==
    /\ FreeSlot(s)
    /\ commands_left > 0
    /\ IF active_downloads = NoMeta
       THEN CmdReject(s, "stop")
       ELSE /\ commands_left' = commands_left - 1
            /\ cmd' = [cmd EXCEPT ![s] = [IdleCmd EXCEPT !.kind = "stop",
                         !.pc = "bytes", !.signal0 = signal,
                         !.meta = [active_downloads EXCEPT !.state = "Stopped"]]]
    /\ UNCHANGED <<active_downloads, ctlVars, fsVars, cmdFrame, resumes_left,
                   cancel_ok>>

StopSyncBytes(s) == SyncBytes(s, "stop")
StopSyncChunks(s) == SyncChunks(s, "stop")
StopSetSignal(s) == SetSignal(s, "stop", SIG_STOP)
StopSave(s) == SaveOrFail(s, "stop")
StopUpdate(s) == UpdateAndReturn(s, "stop")

\* ---- resume_download ---------------------------------------------------
\* the can_resume check left out
ResumeBeginUnchecked(s) ==
    /\ FreeSlot(s)
    /\ commands_left > 0
    /\ IF active_downloads = NoMeta
       THEN CmdReject(s, "resume") /\ UNCHANGED resumes_left
       ELSE /\ resumes_left > 0
            /\ commands_left' = commands_left - 1
            /\ resumes_left' = resumes_left - 1
            /\ cmd' = [cmd EXCEPT ![s] = [IdleCmd EXCEPT !.kind = "resume",
                         !.pc = "save",
                         !.meta = [active_downloads EXCEPT !.state = "Active"]]]
    /\ UNCHANGED <<active_downloads, ctlVars, fsVars, cmdFrame, cancel_ok>>

\* get_download, the can_resume check, metadata.resume()
ResumeBegin(s) ==
    /\ FreeSlot(s)
    /\ commands_left > 0
    /\ IF active_downloads = NoMeta \/ ~can_resume(active_downloads.state)
       THEN CmdReject(s, "resume") /\ UNCHANGED resumes_left
       ELSE /\ resumes_left > 0
            /\ commands_left' = commands_left - 1
            /\ resumes_left' = resumes_left - 1
            /\ cmd' = [cmd EXCEPT ![s] = [IdleCmd EXCEPT !.kind = "resume",
                         !.pc = "save",
                         !.meta = [active_downloads EXCEPT !.state = "Active"]]]
    /\ UNCHANGED <<active_downloads, ctlVars, fsVars, cmdFrame, cancel_ok>>

\* save_state(&metadata)?
ResumeSave(s) ==
    /\ cmd[s].kind = "resume"
    /\ cmd[s].pc = "save"
    /\ \/ /\ save_state(cmd[s].meta)
          /\ cmd' = CmdGoto(s, "update")
          /\ UNCHANGED resumes_left
       \/ /\ UNCHANGED state_file
          /\ cmd' = CmdReturn(s)
          /\ resumes_left' = resumes_left + 1
    /\ UNCHANGED <<active_downloads, ctlVars, part_file, cmdFrame, commands_left,
                   cancel_ok>>

\* manager.update_download(&download_id, metadata.clone())
ResumeUpdate(s) ==
    /\ cmd[s].kind = "resume"
    /\ cmd[s].pc = "update"
    /\ update_download(cmd[s].meta)
    /\ cmd' = CmdGoto(s, "signal")
    /\ UNCHANGED <<ctlVars, fsVars, cmdFrame, commands_left, resumes_left, cancel_ok>>

\* get_control; control.signal.store(0)
ResumeResetSignal(s) ==
    /\ cmd[s].kind = "resume"
    /\ cmd[s].pc = "signal"
    /\ signal' = SIG_RUN
    /\ cmd' = CmdGoto(s, "bytes")
    /\ UNCHANGED <<active_downloads, downloaded_bytes, completed_chunks, generation,
                   fsVars, cmdFrame, commands_left, resumes_left, cancel_ok>>

\* control.downloaded_bytes.store(metadata.downloaded_bytes)
ResumeStoreBytes(s) ==
    /\ cmd[s].kind = "resume"
    /\ cmd[s].pc = "bytes"
    /\ downloaded_bytes' = cmd[s].meta.downloaded_bytes
    /\ cmd' = CmdGoto(s, "chunks")
    /\ UNCHANGED <<active_downloads, signal, completed_chunks, generation, fsVars,
                   cmdFrame, commands_left, resumes_left, cancel_ok>>

\* *control.completed_chunks.lock() = metadata.completed_chunks.clone()
ResumeStoreChunks(s) ==
    /\ cmd[s].kind = "resume"
    /\ cmd[s].pc = "chunks"
    /\ completed_chunks' = cmd[s].meta.completed_chunks
    /\ cmd' = CmdGoto(s, "bump")
    /\ UNCHANGED <<active_downloads, signal, downloaded_bytes, generation, fsVars,
                   cmdFrame, commands_left, resumes_left, cancel_ok>>

\* control.generation.fetch_add(1)
ResumeBumpGeneration(s) ==
    /\ cmd[s].kind = "resume"
    /\ cmd[s].pc = "bump"
    /\ generation' = generation + 1
    /\ cmd' = [cmd EXCEPT ![s].pc = "spawn", ![s].bumped = generation + 1]
    /\ UNCHANGED <<active_downloads, signal, downloaded_bytes, completed_chunks,
                   fsVars, cmdFrame, commands_left, resumes_left, cancel_ok>>

\* the first engine run not yet used
FreeRun(r) == run[r].pc = "none" /\ \A q \in Runs : q < r => run[q].pc # "none"

\* generation = control.generation.load(); tokio::spawn(run_download_task(..,
\* metadata.clone(), control, manager, generation)); Ok(())
ResumeSpawn(s) ==
    /\ cmd[s].kind = "resume"
    /\ cmd[s].pc = "spawn"
    /\ \E r \in Runs :
         /\ FreeRun(r)
         /\ run' = [run EXCEPT ![r] = [IdleRun EXCEPT !.pc = "spawned",
                                         !.gen = generation, !.meta = cmd[s].meta]]
    /\ cmd' = CmdReturn(s)
    /\ UNCHANGED <<cfgVars, active_downloads, registered, ctlVars, fsVars,
                   chunk_queue, chunk_retry_counts, worker, monitor, envVars,
                   cancel_ok, progress_events>>

\* ---- cancel_download ---------------------------------------------------
\* get_download, metadata.cancel(): no check of the current state
CancelBegin(s) ==
    /\ FreeSlot(s)
    /\ commands_left > 0
    /\ IF active_downloads = NoMeta
       THEN CmdReject(s, "cancel")
       ELSE /\ commands_left' = commands_left - 1
            /\ cmd' = [cmd EXCEPT ![s] = [IdleCmd EXCEPT !.kind = "cancel",
                         !.pc = "signal",
                         !.meta = [active_downloads EXCEPT !.state = "Cancelled"]]]
    /\ UNCHANGED <<active_downloads, ctlVars, fsVars, cmdFrame, resumes_left,
                   cancel_ok>>

\* control.signal.store(3)
CancelSetSignal(s) ==
    /\ cmd[s].kind = "cancel"
    /\ cmd[s].pc = "signal"
    /\ signal' = SIG_CANCEL
    /\ cmd' = CmdGoto(s, "delstate")
    /\ UNCHANGED <<active_downloads, downloaded_bytes, completed_chunks, generation,
                   fsVars, cmdFrame, commands_left, resumes_left, cancel_ok>>

\* delete_state(&filepath)?
CancelDeleteState(s) ==
    /\ cmd[s].kind = "cancel"
    /\ cmd[s].pc = "delstate"
    /\ \/ /\ delete_state
          /\ cmd' = CmdGoto(s, "delfile")
       \/ /\ state_file # NoMeta
          /\ UNCHANGED state_file
          /\ cmd' = CmdReturn(s)
    /\ UNCHANGED <<active_downloads, ctlVars, part_file, cmdFrame, commands_left,
                   resumes_left, cancel_ok>>

\* if Path::new(&filepath).exists() { fs::remove_file(&filepath)? }
CancelDeleteFile(s) ==
    /\ cmd[s].kind = "cancel"
    /\ cmd[s].pc = "delfile"
    /\ \/ /\ part_file' = FALSE
          /\ cmd' = CmdGoto(s, "remove")
       \/ /\ part_file
          /\ UNCHANGED part_file
          /\ cmd' = CmdReturn(s)
    /\ UNCHANGED <<active_downloads, ctlVars, state_file, cmdFrame, commands_left,
                   resumes_left, cancel_ok>>

\* manager.remove_download(&download_id); emit; Ok(())
CancelRemove(s) ==
    /\ cmd[s].kind = "cancel"
    /\ cmd[s].pc = "remove"
    /\ remove_download
    /\ cmd' = CmdReturn(s)
    /\ cancel_ok' = TRUE
    /\ UNCHANGED <<ctlVars, fsVars, cmdFrame, commands_left, resumes_left>>

CommandNext ==
    \/ \E s \in Slots : PauseBegin(s)
    \/ \E s \in Slots : PauseSyncBytes(s)
    \/ \E s \in Slots : PauseSyncChunks(s)
    \/ \E s \in Slots : PauseSetSignal(s)
    \/ \E s \in Slots : PauseSave(s)
    \/ \E s \in Slots : PauseUpdate(s)
    \/ \E s \in Slots : StopBegin(s)
    \/ \E s \in Slots : StopSyncBytes(s)
    \/ \E s \in Slots : StopSyncChunks(s)
    \/ \E s \in Slots : StopSetSignal(s)
    \/ \E s \in Slots : StopSave(s)
    \/ \E s \in Slots : StopUpdate(s)
    \/ \E s \in Slots : ResumeBegin(s)
    \/ \E s \in Slots : ResumeSave(s)
    \/ \E s \in Slots : ResumeUpdate(s)
    \/ \E s \in Slots : ResumeResetSignal(s)
    \/ \E s \in Slots : ResumeStoreBytes(s)
    \/ \E s \in Slots : ResumeStoreChunks(s)
    \/ \E s \in Slots : ResumeBumpGeneration(s)
    \/ \E s \in Slots : ResumeSpawn(s)
    \/ \E s \in Slots : CancelBegin(s)
    \/ \E s \in Slots : CancelSetSignal(s)
    \/ \E s \in Slots : CancelDeleteState(s)
    \/ \E s \in Slots : CancelDeleteFile(s)
    \/ \E s \in Slots : CancelRemove(s)
    \/ \E s \in Slots : CmdError(s)

Next == EngineNext \/ CommandNext

Spec == Init /\ [][Next]_vars

(***************************************************************************)
(* download_file (lib.rs): the one-shot command.  It probes the size with a *)
(* GET, allocates the output file, spawns its workers, joins them and       *)
(* checks the byte count.  It shares nothing with the download manager.     *)
(***************************************************************************)
mgrVars == <<total_size, thread_count, slow_chunks, active_downloads, registered,
             ctlVars, fsVars, engineVars, cmd, envVars, slots_open, cancel_ok,
             progress_events>>

LegacyErr(msg) == [legacy EXCEPT !.pc = "returned", !.ret = msg]

\* the command is invoked; Client::builder().build()?
DownloadFileBegin ==
    /\ legacy.pc = "idle"
    /\ \E n \in 0 .. ProbeMaxThreads :
         \/ legacy' = [legacy EXCEPT !.pc = "send", !.threads = n]
         \/ legacy' = [LegacyErr("build error") EXCEPT !.threads = n]
    /\ UNCHANGED <<mgrVars, call>>

\* client.get(&url).send().await?; response.content_length().unwrap_or(0)
DownloadFileSend ==
    /\ legacy.pc = "send"
    /\ \/ legacy' = LegacyErr("send error")
       \/ \E len \in {NoLength} \cup (0 .. ProbeMaxLength) :
            legacy' = [legacy EXCEPT !.pc = "check", !.content_length = len,
                                     !.total_size = IF len = NoLength THEN 0 ELSE len]
    /\ UNCHANGED <<mgrVars, call>>

\* the size check left out
DownloadFileCheckSkipped ==
    /\ legacy.pc = "check"
    /\ legacy' = [legacy EXCEPT !.pc = "create", !.started = TRUE]
    /\ UNCHANGED <<mgrVars, call>>

\* if total_size < 1 { return Err("File has no size!") }; emit download-start
DownloadFileCheck ==
    /\ legacy.pc = "check"
    /\ legacy' = IF legacy.total_size < 1 THEN LegacyErr("File has no size!")
                 ELSE [legacy EXCEPT !.pc = "create", !.started = TRUE]
    /\ UNCHANGED <<mgrVars, call>>

\* File::create(&path)?
DownloadFileCreate ==
    /\ legacy.pc = "create"
    /\ \/ legacy' = [legacy EXCEPT !.pc = "size", !.created = TRUE]
       \/ legacy' = LegacyErr("create error")
    /\ UNCHANGED <<mgrVars, call>>

\* file.seek(SeekFrom::Start(total_size - 1))?; file.write_all(&[0])?
DownloadFileSize ==
    /\ legacy.pc = "size"
    /\ \/ legacy' = [legacy EXCEPT !.pc = "spawn", !.sized = TRUE]
       \/ legacy' = LegacyErr("seek or write error")
    /\ UNCHANGED <<mgrVars, call>>

\* the chunk layout and the queue; actual_threads = if threads > 0 { threads }
\* else { 8 }; one tokio::spawn per thread
DownloadFileSpawn ==
    /\ legacy.pc = "spawn"
    /\ legacy' = [legacy EXCEPT !.pc = "join",
                     !.spawned = IF legacy.threads > 0 THEN legacy.threads
                                 ELSE LEGACY_DEFAULT_THREADS]
    /\ UNCHANGED <<mgrVars, call>>

\* handle.await? for every worker.  A worker leaves its loop only when every
\* chunk is counted complete, so the join ends with all bytes counted, or with
\* the error of a worker that panicked; then the check final_bytes < total_size
\* and Ok("Done!")
DownloadFileJoin ==
    /\ legacy.pc = "join"
    /\ \/ legacy' = LegacyErr("join error")
       \/ legacy' = [legacy EXCEPT !.pc = "returned", !.ret = "Done!"]
    /\ UNCHANGED <<mgrVars, call>>

LegacyNext ==
    \/ DownloadFileBegin
    \/ DownloadFileSend
    \/ DownloadFileCheck
    \/ DownloadFileCreate
    \/ DownloadFileSize
    \/ DownloadFileSpawn
    \/ DownloadFileJoin

ProbeSpec == Init /\ [][LegacyNext]_vars

(***************************************************************************)
(* A caller of the pure functions.                                          *)
(***************************************************************************)
TierQuotients ==
    {0, 1, 99, 100, 101, 1023, 1024, 1025, 10239, 10240, 10241, TopSize}

TierSizes == TierQuotients \X {0, 1, MiB - 1}

\* total_size of the download whose layout is computed: around the multiples
\* of the chunk size of each tier that the integers of the model checker hold
LayoutSizes ==
    {1, 2}
      \cup {k * (512 * 1024) + d : k \in 1 .. 3, d \in {-1, 0, 1}}
      \cup {100 * MiB + k * (4 * MiB) + d : k \in 0 .. 1, d \in {-1, 0, 1}}
      \cup {1024 * MiB + k * (16 * MiB) + d : k \in 0 .. 1, d \in {-1, 0, 1}}

\* chunk_size, total_chunks and, for every index, the range and the expected
\* byte count as the worker computes them
LayoutCall ==
    /\ call = NoCall
    /\ call' = [NoCall EXCEPT
                  !.op = "layout", !.arg = total_size, !.n = 1,
                  !.ret = [idx \in 0 .. (total_chunks - 1) |->
                             [start |-> ChunkStart(idx), end |-> ChunkEnd(idx),
                              expected |-> ExpectedBytes(idx)]]]
    /\ UNCHANGED <<mgrVars, legacy>>

\* calculate_chunk_size(a) and calculate_chunk_size(b) for two sizes
ChunkSizeCall ==
    /\ call = NoCall
    /\ \E a, b \in TierSizes :
         call' = [NoCall EXCEPT
                    !.op = "calculate_chunk_size", !.arg = <<a, b>>, !.n = 1,
                    !.ret = <<calculate_chunk_size_u64(a),
                              calculate_chunk_size_u64(b)>>]
    /\ UNCHANGED <<mgrVars, legacy>>

(***************************************************************************)
(* A caller of core/persistence.rs for one filepath: save_state,            *)
(* load_state, delete_state and state_exists, one call after the other.     *)
(***************************************************************************)
\* the metadata records handed to save_state
TestMetadata ==
    {[url |-> "https://example.com/test.zip", state |-> st,
      downloaded_bytes |-> b, completed_chunks |-> c[1],
      incomplete_chunks |-> c[2], paused_at |-> t] :
        st \in DownloadState, b \in {0, SpecTotalSize},
        c \in {<< <<>>, <<0>> >>, << <<0>>, <<>> >>},
        t \in {<<>>, <<1>>}}

Called(op, arg, ret) ==
    [call EXCEPT !.op = op, !.arg = arg, !.ret = ret, !.n = call.n + 1]

persistFrame == <<total_size, thread_count, slow_chunks, active_downloads,
                  registered, ctlVars, part_file, engineVars, cmd, envVars,
                  slots_open, cancel_ok, progress_events, legacy>>

\* save_state(&metadata): Ok after the write, or the error of fs::write, which
\* fails before it creates the file or after it has emptied it
SaveStateCall ==
    /\ call.n < PersistCalls
    /\ \E m \in TestMetadata :
         \/ /\ save_state(m)
            /\ call' = [Called("save_state", m, <<"Ok">>) EXCEPT !.saved = m]
         \/ /\ \/ UNCHANGED state_file
               \/ state_file' = Truncated
            /\ call' = [Called("save_state", m, <<"Err", "FileSystem">>) EXCEPT
                          !.saved = NoMeta]
    /\ UNCHANGED persistFrame

\* load_state(filepath): the record, or StateNotFound, or the error of
\* fs::read_to_string
LoadStateCall ==
    /\ call.n < PersistCalls
    /\ \/ call' = Called("load_state", <<>>, load_state)
       \/ /\ state_exists
          /\ call' = Called("load_state", <<>>, <<"Err", "FileSystem">>)
    /\ UNCHANGED <<state_file, persistFrame>>

\* delete_state(filepath): Ok when there is no file, else fs::remove_file
DeleteStateCall ==
    /\ call.n < PersistCalls
    /\ IF ~state_exists
       THEN /\ call' = Called("delete_state", <<>>, <<"Ok">>)
            /\ UNCHANGED state_file
       ELSE \/ /\ delete_state
               /\ call' = [Called("delete_state", <<>>, <<"Ok">>) EXCEPT
                             !.saved = NoMeta]
            \/ /\ UNCHANGED state_file
               /\ call' = Called("delete_state", <<>>, <<"Err", "FileSystem">>)
    /\ UNCHANGED persistFrame

\* state_exists(filepath)
StateExistsCall ==
    /\ call.n < PersistCalls
    /\ call' = Called("state_exists", <<>>, <<state_exists>>)
    /\ UNCHANGED <<state_file, persistFrame>>

PersistNext ==
    \/ SaveStateCall
    \/ LoadStateCall
    \/ DeleteStateCall
    \/ StateExistsCall

PersistSpec == Init /\ [][PersistNext]_vars

\* can_resume(), is_terminal() and is_active() of one state
StatePredicatesCall ==
    /\ call = NoCall
    /\ \E st \in DownloadState :
         call' = [NoCall EXCEPT
                    !.op = "predicates", !.arg = st, !.n = 1,
                    !.ret = <<can_resume(st), is_terminal(st), is_active(st)>>]
    /\ UNCHANGED <<mgrVars, legacy>>

\* DownloadMetadata::new for the download
MetadataNewCall ==
    /\ call = NoCall
    /\ call' = [NoCall EXCEPT !.op = "DownloadMetadata::new", !.arg = total_size,
                              !.n = 1, !.ret = DownloadMetadata_new]
    /\ UNCHANGED <<mgrVars, legacy>>

\* the byte counts and the chunk tallies handed to verify_download
VerifyBytes ==
    {0, 1, SpecTotalSize - 1, SpecTotalSize, SpecTotalSize + 1, 1024 * MiB}
VerifyTallies == 0 .. VerifyMaxChunks

VerifyResult(ok) == IF ok THEN <<"Ok">> ELSE <<"Err", "Integrity">>

\* verify_download for one pair of byte counts and two pairs of tallies
VerifyCall ==
    /\ call = NoCall
    /\ \E b, s \in VerifyBytes, c1, t1, c2, t2 \in VerifyTallies :
         call' = [NoCall EXCEPT
                    !.op = "verify_download",
                    !.arg = <<b, s, <<c1, t1>>, <<c2, t2>> >>, !.n = 1,
                    !.ret = <<VerifyResult(verify_download(b, s, c1, t1)),
                              VerifyResult(verify_download(b, s, c2, t2))>>]
    /\ UNCHANGED <<mgrVars, legacy>>

PureNext ==
    \/ ChunkSizeCall
    \/ LayoutCall
    \/ StatePredicatesCall
    \/ MetadataNewCall
    \/ VerifyCall

PureInit == \E size \in LayoutSizes : InitWith(size, SpecThreads, 0, 0, 0, 0, 0)

PureSpec == PureInit /\ [][PureNext]_vars

(***************************************************************************)
(* Scheduling.  The workers, the monitor and the engine are tokio tasks and *)
(* a command handler is a task of its own: the runtime lets each of them    *)
(* take its next step when it can.  A request in flight ends with a slice,  *)
(* the end of the body or an error.  Command invocations are the user's and *)
(* are not forced.                                                          *)
(***************************************************************************)
WorkerStep(w) ==
    \/ WorkerOpen(w)
    \/ WorkerCheckSignal(w)
    \/ WorkerLease(w)
    \/ WorkerIdle(w)
    \/ WorkerAttempt(w)
    \/ WorkerSlice(w)
    \/ WorkerFetchAdd(w)
    \/ WorkerPush(w)
    \/ WorkerBackoff(w)
    \/ WorkerRequeue(w)

MonitorStep(r) ==
    \/ MonitorTick(r)
    \/ MonitorLoad(r)
    \/ MonitorGet(r)
    \/ MonitorUpdate(r)

EngineStep(r) ==
    \/ EngineStart(r)
    \/ EngineJoin(r)
    \/ EngineAbortMonitor(r)
    \/ EngineVerify(r)
    \/ EngineMark(r)
    \/ EngineUpdate(r)
    \/ EngineRemove(r)

HandlerStep(s) ==
    \/ PauseSyncBytes(s) \/ PauseSyncChunks(s) \/ PauseSetSignal(s)
    \/ PauseSave(s) \/ PauseUpdate(s)
    \/ StopSyncBytes(s) \/ StopSyncChunks(s) \/ StopSetSignal(s)
    \/ StopSave(s) \/ StopUpdate(s)
    \/ ResumeSave(s) \/ ResumeUpdate(s) \/ ResumeResetSignal(s)
    \/ ResumeStoreBytes(s) \/ ResumeStoreChunks(s) \/ ResumeBumpGeneration(s)
    \/ ResumeSpawn(s)
    \/ CancelSetSignal(s) \/ CancelDeleteState(s) \/ CancelDeleteFile(s)
    \/ CancelRemove(s)
    \/ CmdError(s)

Fairness ==
    /\ \A w \in Workers : WF_vars(WorkerStep(w))
    /\ \A r \in Runs : WF_vars(MonitorStep(r))
    /\ \A r \in Runs : WF_vars(EngineStep(r))
    /\ \A s \in Slots : WF_vars(HandlerStep(s))

LiveSpec == Init /\ [][Next]_vars /\ Fairness

(***************************************************************************)
(* The download of Spec with enough failed attempts to exhaust a lease, so *)
(* that the requeue after CHUNK_RETRY_LIMIT attempts happens.              *)
(***************************************************************************)
RetryInit == InitWith(SpecTotalSize, SpecThreads, SpecCommands, SpecResumes,
                      SpecInFlight, RetryFaults, SpecTicks)

RetrySpec == RetryInit /\ [][Next]_vars

(***************************************************************************)
(* One uninterrupted engine run: two workers, two chunks, no command.      *)
(***************************************************************************)
EngineInit == InitWith(EngineTotalSize, EngineThreads, 0, 0, 0, EngineFaults,
                       EngineTicks)

EngineSpec == EngineInit /\ [][EngineNext]_vars /\ Fairness

(***************************************************************************)
(* One uninterrupted run of a download of a single chunk, with any number   *)
(* of workers up to MaxThreads.                                             *)
(***************************************************************************)
SingleInit ==
    \E n \in 1 .. MaxThreads :
       InitWith(SpecTotalSize, n, 0, 0, 0, SingleFaults, SingleTicks)

SingleSpec == SingleInit /\ [][EngineNext]_vars /\ Fairness

(***************************************************************************)
(* The same run against a server that serves the range of one chunk below  *)
(* the speed floor; no attempt fails for another reason.                    *)
(***************************************************************************)
SlowInit ==
    /\ InitManager(EngineTotalSize, EngineThreads, 0, 0, 0, 0, EngineTicks)
    /\ slow_chunks = {SlowChunk}

SlowSpec == SlowInit /\ [][EngineNext]_vars /\ Fairness

(***************************************************************************)
(* The download of two chunks of EngineSpec under the commands of Spec: a   *)
(* run can be paused or stopped with one chunk completed and resumed.  The  *)
(* monitor never gets to sync: it writes the registry only, and there only  *)
(* the byte count of a record that was registered.                          *)
(***************************************************************************)
PartialInit == InitWith(EngineTotalSize, PartialThreads, SpecCommands, SpecResumes,
                        SpecInFlight, PartialFaults, 0)

PartialNext ==
    \/ StartDownload
    \/ \E r \in Runs : EngineStart(r)
    \/ \E w \in Workers : WorkerStep(w)
    \/ \E r \in Runs : MonitorTick(r)
    \/ \E r \in Runs : EngineJoin(r)
    \/ \E r \in Runs : EngineAbortMonitor(r)
    \/ \E r \in Runs : EngineVerify(r)
    \/ \E r \in Runs : EngineMark(r)
    \/ \E r \in Runs : EngineUpdate(r)
    \/ \E r \in Runs : EngineRemove(r)
    \/ CommandNext

PartialSpec == PartialInit /\ [][PartialNext]_vars

(***************************************************************************)
(* Overlapping command handlers.  Tauri runs async commands as concurrent  *)
(* tasks, so a stop may run entirely between two steps of a resume.  This  *)
(* specification admits two handlers in flight and four accepted commands, *)
(* and keeps to the stop and resume handlers and the workers: the monitor, *)
(* the engine's steps after the join, pause and cancel are left out.       *)
(***************************************************************************)
RaceInit == InitWith(SpecTotalSize, SpecThreads, RaceCommands, SpecResumes,
                     RaceInFlight, 0, 0)

RaceNext ==
    \/ StartDownload
    \/ \E r \in Runs : EngineStart(r)
    \/ \E w \in Workers : WorkerOpen(w)
    \/ \E w \in Workers : WorkerCheckSignal(w)
    \/ \E w \in Workers : WorkerLease(w)
    \/ \E w \in Workers : WorkerIdle(w)
    \/ \E w \in Workers : WorkerAttempt(w)
    \/ \E w \in Workers : WorkerSlice(w)
    \/ \E w \in Workers : WorkerFetchAdd(w)
    \/ \E w \in Workers : WorkerPush(w)
    \/ \E w \in Workers : WorkerBackoff(w)
    \/ \E w \in Workers : WorkerRequeue(w)
    \/ \E s \in Slots : StopBegin(s)
    \/ \E s \in Slots : StopSyncBytes(s)
    \/ \E s \in Slots : StopSyncChunks(s)
    \/ \E s \in Slots : StopSetSignal(s)
    \/ \E s \in Slots : StopSave(s)
    \/ \E s \in Slots : StopUpdate(s)
    \/ \E s \in Slots : ResumeBegin(s)
    \/ \E s \in Slots : ResumeSave(s)
    \/ \E s \in Slots : ResumeUpdate(s)
    \/ \E s \in Slots : ResumeResetSignal(s)
    \/ \E s \in Slots : ResumeStoreBytes(s)
    \/ \E s \in Slots : ResumeStoreChunks(s)
    \/ \E s \in Slots : ResumeBumpGeneration(s)
    \/ \E s \in Slots : ResumeSpawn(s)
    \/ \E s \in Slots : CmdError(s)

RaceSpec == RaceInit /\ [][RaceNext]_vars

\* the stop and resume handlers one at a time and the workers, with enough
\* failed attempts to exhaust a lease: a lease can end by its fifth failure or
\* by a signal
ExhaustInit == InitWith(SpecTotalSize, SpecThreads, SpecCommands, SpecResumes,
                        SpecInFlight, RetryFaults, 0)

ExhaustSpec == ExhaustInit /\ [][RaceNext]_vars

\* the same with two resumes: a second resume_download can be entered before
\* the first has registered the Active state
ResumeRaceInit == InitWith(SpecTotalSize, SpecThreads, ResumeRaceCommands,
                           ResumeRaceResumes, RaceInFlight, 0, 0)

ResumeRaceSpec == ResumeRaceInit /\ [][RaceNext]_vars

(***************************************************************************)
(* Claims.                                                                 *)
(***************************************************************************)
Alive(w) == worker[w].pc \notin {"none", "done"}

\* the worker was spawned under a generation that is no longer the current one
Zombie(w) == Alive(w) /\ generation # run[w[1]].gen

Returned(r, status) == run[r].pc = "returned" /\ run[r].status = status

ReturnsNow(r, status) == run[r].pc # "returned" /\ Returned(r, status)'

\* C1: a run that reads a nonzero signal after the join returns "paused" (1),
\* "stopped" (2) or "cancelled" (3), and on that path it has not called
\* verify_download, has not marked its metadata Completed nor emitted
\* "completed", and has not removed the registry entry; a run goes on to the
\* completion path only after reading signal 0.
C1_SignalledRunReturnsStatus ==
    \A r \in Runs :
      /\ (run[r].pc = "returned" /\ run[r].final_signal # SIG_RUN) =>
            /\ run[r].final_signal = SIG_PAUSE => run[r].status = "paused"
            /\ run[r].final_signal = SIG_STOP => run[r].status = "stopped"
            /\ run[r].final_signal = SIG_CANCEL => run[r].status = "cancelled"
            /\ ~run[r].verified /\ ~run[r].marked /\ ~run[r].removed
      /\ run[r].status \in {"paused", "stopped", "cancelled"} =>
            run[r].final_signal # SIG_RUN
      /\ run[r].pc \in {"verify", "mark", "update", "remove"} =>
            run[r].final_signal = SIG_RUN

\* a run has returned "stopped" after a stop command set the signal to 2
C1_Witness == \E r \in Runs : Returned(r, "stopped") /\ run[r].final_signal = SIG_STOP

\* C2: when a run returns "completed", control.downloaded_bytes = total_size
C2_CompletedBytesExact ==
    [][\A r \in Runs : ReturnsNow(r, "completed") => downloaded_bytes' = total_size]_vars

\* C3: when a run returns "completed", control.completed_chunks has
\* total_chunks entries and holds every index 0 .. total_chunks-1
C3_CompletedChunksExact ==
    [][\A r \in Runs : ReturnsNow(r, "completed") =>
          /\ Len(completed_chunks') = total_chunks
          /\ Range(completed_chunks') = 0 .. (total_chunks - 1)]_vars

\* C4: every saved state record has downloaded_bytes equal to the sum of the
\* sizes of its completed_chunks
C4_SavedBytesMatchChunks ==
    state_file # NoMeta =>
        state_file.downloaded_bytes = SumSizes(state_file.completed_chunks)

\* C5: in every saved state record completed_chunks and incomplete_chunks are
\* disjoint and together hold exactly the indices 0 .. total_chunks-1
C5_SavedChunksPartition ==
    state_file # NoMeta =>
        /\ Range(state_file.completed_chunks) \cap Range(state_file.incomplete_chunks) = {}
        /\ Range(state_file.completed_chunks) \cup Range(state_file.incomplete_chunks)
              = 0 .. (total_chunks - 1)

\* C6: control.completed_chunks, and every metadata.completed_chunks copied
\* from it (handler clones, the registry, the state file), has no duplicates
C6_NoDuplicateCompleted ==
    /\ NoDup(completed_chunks)
    /\ active_downloads # NoMeta => NoDup(active_downloads.completed_chunks)
    /\ state_file # NoMeta => NoDup(state_file.completed_chunks)
    /\ \A s \in Slots : cmd[s].meta # NoMeta => NoDup(cmd[s].meta.completed_chunks)

\* C7: a worker of a previous generation that has left the attempt loop does
\* not requeue its chunk and go back to the top of the main loop
C7_ZombieTerminates ==
    [][\A w \in Workers :
          Zombie(w) =>
            ~(/\ worker[w].pc = "after"
              /\ worker'[w].pc = "top"
              /\ chunk_queue'[w[1]] # chunk_queue[w[1]])]_vars

\* C8: a worker of a previous generation never writes a slice to the file,
\* never adds to control.downloaded_bytes, never appends to completed_chunks
C8_ZombieNeverWrites ==
    [][\A w \in Workers :
          Zombie(w) =>
            /\ ~(worker[w].pc = "stream" /\ worker'[w].pc = "fetchadd")
            /\ ~(worker[w].pc = "fetchadd" /\ worker'[w].pc = "push")
            /\ ~(worker[w].pc = "push" /\ worker'[w].pc = "top")]_vars

\* C9: once cancel_download has returned Ok, the state file and the partial
\* file do not exist and the registry has no entry for the id
C9_CancelIsFinal ==
    cancel_ok => (state_file = NoMeta /\ ~part_file /\ active_downloads = NoMeta)

\* Pending -> Active, Active -> {Paused, Stopped, Completed, Failed, Cancelled},
\* {Paused, Stopped} -> Active
AllowedTransition(from, to) ==
    \/ from = to
    \/ from = "Pending" /\ to = "Active"
    \/ from = "Active" /\ to \in {"Paused", "Stopped", "Completed", "Failed", "Cancelled"}
    \/ from \in {"Paused", "Stopped"} /\ to = "Active"

\* C10: every change of the lifecycle state of the registered record, and of
\* the saved record, follows the allowed relation
C10_LifecycleTransitions ==
    [][/\ (active_downloads # NoMeta /\ active_downloads' # NoMeta) =>
             AllowedTransition(active_downloads.state, active_downloads'.state)
       /\ (state_file # NoMeta /\ state_file' # NoMeta) =>
             AllowedTransition(load_state[2].state, load_state'[2].state)]_vars

\* a resume_download handler has passed its state check and is in flight
ResumeAccepted ==
    \E s \in Slots : cmd[s].kind = "resume" /\ cmd[s].pc \notin {"idle", "error"}

AllReturned ==
    /\ \A r \in Runs : run[r].pc \in {"none", "returned"}
    /\ \A w \in Workers : ~Alive(w)

\* C11: with control.signal nonzero, a worker that reads the signal leaves:
\* from the top of the loop it exits, from the attempt loop, a slice or the
\* backoff it goes to the end of the iteration without requeueing and without
\* leasing; and unless a resume follows, every worker exits and every run
\* returns.
C11_SignalStopsRun ==
    /\ [][\A w \in Workers :
            (signal # SIG_RUN /\ worker'[w] # worker[w]) =>
               /\ worker[w].pc = "top" => worker'[w].pc = "done"
               /\ worker[w].pc = "attempt" => worker'[w].pc = "after"
               /\ worker[w].pc = "stream" => worker'[w].pc = "failcheck"
               /\ worker[w].pc = "failcheck" => worker'[w].pc = "after"
               /\ worker[w].pc = "after" =>
                    (worker'[w].pc = "top" /\ chunk_queue' = chunk_queue)]_vars
    /\ (signal # SIG_RUN) ~> (AllReturned \/ ResumeAccepted)

\* after a pause every worker has left with chunk 0 unfetched and the run has
\* returned "paused"
C11_Witness ==
    /\ signal = SIG_PAUSE
    /\ AllReturned
    /\ Returned(0, "paused")
    /\ completed_chunks = <<>>

\* the chunk indices leased by the workers of run r
Leased(r) ==
    {worker[w].idx : w \in {v \in Workers : /\ v[1] = r
                                            /\ worker[v].pc \in {"attempt", "stream",
                                                 "failcheck", "fetchadd", "push",
                                                 "after"}}}

Started(r) == run[r].pc \notin {"none", "spawned"}

\* C12: while control.signal is 0, every index of a run's initial incomplete set
\* is in the run's queue, leased by one of its workers, or in completed_chunks;
\* and a lease that ends without success with the signal 0 puts its index back
C12_NoChunkLost ==
    /\ [](signal = SIG_RUN =>
            \A r \in Runs :
               Started(r) =>
                  Range(run[r].incomplete) \subseteq
                     (Range(chunk_queue[r]) \cup Leased(r) \cup Range(completed_chunks)))
    /\ [][\A w \in Workers :
            (worker[w].pc = "after" /\ worker'[w].pc = "top" /\ signal = SIG_RUN) =>
               chunk_queue'[w[1]] = Append(chunk_queue[w[1]], worker[w].idx)]_vars

\* the run is the one of the current generation: it was given the current value
\* of control.generation and no resume has reset the signal since
CurrentRun(r) ==
    /\ Started(r)
    /\ run[r].gen = generation
    /\ ~\E s \in Slots : cmd[s].kind = "resume" /\ cmd[s].pc \in {"bytes", "chunks", "bump"}

\* C12 (amended): while control.signal is 0, every index of the initial
\* incomplete set of the run of the current generation is in the run's queue,
\* leased by one of its workers, or in completed_chunks; and a lease of any run
\* that ends without success with the signal 0 puts its index back
C12_NoChunkLostCurrentRun ==
    /\ [](signal = SIG_RUN =>
            \A r \in Runs :
               CurrentRun(r) =>
                  Range(run[r].incomplete) \subseteq
                     (Range(chunk_queue[r]) \cup Leased(r) \cup Range(completed_chunks)))
    /\ [][\A w \in Workers :
            (worker[w].pc = "after" /\ worker'[w].pc = "top" /\ signal = SIG_RUN) =>
               chunk_queue'[w[1]] = Append(chunk_queue[w[1]], worker[w].idx)]_vars

\* a lease of the current run has used up its attempts and chunk 0 is back on
\* the queue
C12_Witness ==
    \E r \in Runs :
       /\ signal = SIG_RUN
       /\ CurrentRun(r)
       /\ chunk_queue[r] = <<0>>
       /\ chunk_retry_counts[r][0] >= 1

AllChunks == 0 .. (total_chunks - 1)

IsPrefix(a, b) == Len(a) <= Len(b) /\ SubSeq(b, 1, Len(a)) = a

\* C14: control.downloaded_bytes never decreases and control.completed_chunks
\* only grows by appends
C14_MonotoneProgress ==
    [][/\ downloaded_bytes' >= downloaded_bytes
       /\ IsPrefix(completed_chunks, completed_chunks')]_vars

\* the save_state of a pause or stop handler fails and the handler returns Err
SaveFails(s) ==
    /\ cmd[s].kind \in {"pause", "stop"}
    /\ cmd[s].pc = "save"
    /\ cmd'[s].pc = "idle"

\* C15: when save_state fails in pause_download or stop_download, control.signal
\* has the value it had when the command was entered and the registered
\* metadata is not changed
C15_FailedSaveChangesNothing ==
    [][\A s \in Slots :
          SaveFails(s) =>
             /\ signal' = cmd[s].signal0
             /\ active_downloads' = active_downloads]_vars

\* slot s enters a handler of this kind at this step
Enters(s, kind) == cmd[s].pc = "idle" /\ cmd'[s].kind = kind

\* slot s returns Err from the entry checks of a handler of this kind
ReturnsErr(s, kind) ==
    cmd[s].kind = kind /\ cmd[s].pc = "error" /\ cmd'[s].pc = "idle"

\* C16: pause_download entered when the id is not registered or the registered
\* state is not Active goes to its error return, and neither the entry nor the
\* return changes control.signal, the registered metadata or the state file; it
\* goes on only when the registered state is Active
C16_PauseRejected ==
    [][\A s \in Slots :
          /\ Enters(s, "pause") =>
               (cmd'[s].pc = "error") =
                  (active_downloads = NoMeta \/ active_downloads.state # "Active")
          /\ ((Enters(s, "pause") /\ cmd'[s].pc = "error") \/ ReturnsErr(s, "pause")) =>
               /\ signal' = signal
               /\ active_downloads' = active_downloads
               /\ state_file' = state_file]_vars

\* pause_download on a paused download is at its error return
C16_Witness ==
    \E s \in Slots :
       /\ cmd[s].kind = "pause" /\ cmd[s].pc = "error"
       /\ active_downloads # NoMeta /\ active_downloads.state = "Paused"
       /\ signal = SIG_PAUSE

\* C17: resume_download entered when the id is not registered or the registered
\* state is neither Paused nor Stopped goes to its error return, and neither the
\* entry nor the return changes the control block or the registered metadata or
\* spawns a run; it goes on only from Paused or Stopped
C17_ResumeRejected ==
    [][\A s \in Slots :
          /\ Enters(s, "resume") =>
               (cmd'[s].pc = "error") =
                  (active_downloads = NoMeta
                     \/ active_downloads.state \notin {"Paused", "Stopped"})
          /\ ((Enters(s, "resume") /\ cmd'[s].pc = "error") \/ ReturnsErr(s, "resume")) =>
               /\ signal' = signal
               /\ generation' = generation
               /\ downloaded_bytes' = downloaded_bytes
               /\ completed_chunks' = completed_chunks
               /\ active_downloads' = active_downloads
               /\ run' = run]_vars

\* resume_download on a running download is at its error return
C17_Witness ==
    \E s \in Slots :
       /\ cmd[s].kind = "resume" /\ cmd[s].pc = "error"
       /\ active_downloads # NoMeta /\ active_downloads.state = "Active"
       /\ \E w \in Workers : Alive(w)

\* slot s takes the step of a resume handler that leaves position pc
ResumeAt(s, pc) == cmd[s].kind = "resume" /\ cmd[s].pc = pc /\ cmd'[s].pc # pc

\* C18: a resume_download that passed its checks and saved registers the state
\* Active, stores signal 0, stores the metadata's downloaded_bytes and
\* completed_chunks in the control block, adds exactly 1 to the generation, and
\* spawns exactly one run, which is given the generation value that this
\* resume's increment produced and the metadata whose incomplete_chunks become
\* the run's queue
C18_ResumeEffect ==
    [][/\ \A s \in Slots :
            /\ ResumeAt(s, "update") =>
                 (active_downloads' # NoMeta /\ active_downloads'.state = "Active")
            /\ ResumeAt(s, "signal") => signal' = SIG_RUN
            /\ ResumeAt(s, "bytes") => downloaded_bytes' = cmd[s].meta.downloaded_bytes
            /\ ResumeAt(s, "chunks") => completed_chunks' = cmd[s].meta.completed_chunks
            /\ ResumeAt(s, "bump") => generation' = generation + 1
            /\ ResumeAt(s, "spawn") =>
                 \E r \in Runs :
                    /\ run[r].pc = "none" /\ run'[r].pc = "spawned"
                    /\ \A q \in Runs \ {r} : run'[q] = run[q]
                    /\ run'[r].gen = cmd[s].bumped
                    /\ run'[r].meta = cmd[s].meta
       /\ \A r \in Runs :
            (run[r].pc = "spawned" /\ run'[r].pc # "spawned") =>
               chunk_queue'[r] = run[r].meta.incomplete_chunks]_vars

\* C19: when a run returns "completed", no state file exists
C19_NoStateFileAfterCompletion ==
    [][\A r \in Runs : ReturnsNow(r, "completed") => state_file' = NoMeta]_vars

\* C20: when a run returns the Integrity error, the registered metadata, if the
\* download is still registered, is in state Failed
C20_IntegrityFailureMarksFailed ==
    [][\A r \in Runs :
          ReturnsNow(r, "error") =>
             (active_downloads' # NoMeta => active_downloads'.state = "Failed")]_vars

\* the step at which remove_download(id) is called: by the completion path of a
\* run, or by cancel_download
RemoveCalled ==
    \/ \E r \in Runs : run[r].pc = "remove" /\ run'[r].pc # "remove"
    \/ \E s \in Slots : cmd[s].kind = "cancel" /\ cmd[s].pc = "remove" /\ cmd'[s].pc # "remove"

\* C21: after remove_download(id) neither the metadata entry nor the
\* control-block entry of id is there: get_download(id) and get_control(id)
\* both return None
C21_RemoveDropsBothEntries ==
    [][RemoveCalled => (active_downloads' = NoMeta /\ ~registered')]_vars

NonDecreasing(s) == \A i, j \in 1 .. Len(s) : i <= j => s[i] <= s[j]

\* C22: the values carried by the download-progress events of a run, in the
\* order they are emitted, never decrease, and when the run has returned
\* "completed" the last of them is total_size
C22_ProgressEventsMonotone ==
    \A r \in Runs :
       /\ NonDecreasing(progress_events[r])
       /\ Returned(r, "completed") =>
             /\ progress_events[r] # <<>>
             /\ progress_events[r][Len(progress_events[r])] = total_size

\* the attempts made so far for the chunk a worker holds, all leases counted:
\* every earlier lease of the chunk has used its CHUNK_RETRY_LIMIT attempts
AttemptOrdinal(w) ==
    CHUNK_RETRY_LIMIT * (chunk_retry_counts[w[1]][worker[w].idx] - 1)
       + worker[w].attempts

\* C23: for a chunk served below the speed floor, the first three attempts run
\* with enforce_speed and are aborted, the fourth and fifth run with
\* enforce_speed = false, and no sixth attempt is made
C23_SlowChunkFiveAttempts ==
    \A w \in Workers :
       (worker[w].pc \in {"stream", "failcheck", "fetchadd"}
           /\ worker[w].idx \in slow_chunks) =>
          /\ worker[w].enforce = (AttemptOrdinal(w) <= 3)
          /\ AttemptOrdinal(w) <= 5

NoSize == legacy.pc \notin {"idle", "send"} /\ legacy.content_length \in {NoLength, 0}

\* C25: when the size probe yields no Content-Length or 0, the start fails with
\* the error and has done nothing else: no download-start event, no output file
\* created or sized, nothing registered with the manager, no worker spawned
C25_NoSizeFailsFirst ==
    (NoSize /\ legacy.ret \notin {"build error", "send error"}) =>
       /\ legacy.pc \in {"check", "returned"}
       /\ legacy.pc = "returned" => legacy.ret = "File has no size!"
       /\ ~legacy.started /\ ~legacy.created /\ ~legacy.sized
       /\ legacy.spawned = 0
       /\ ~registered /\ active_downloads = NoMeta
       /\ \A w \in Workers : worker[w].pc = "none"

\* download_file has returned the error for a response without Content-Length
C25_Witness ==
    /\ legacy.pc = "returned"
    /\ legacy.content_length = NoLength
    /\ legacy.ret = "File has no size!"

\* the chunk size the tiers give a size of q MiB + r bytes, r < 1 MiB
TierOf(size) ==
    IF size[1] < 100 THEN <<0, 524288>>
    ELSE IF size[1] < 1024 THEN <<4, 0>>
    ELSE IF size[1] < 10240 THEN <<16, 0>>
    ELSE <<64, 0>>

RECURSIVE SumExpected(_, _, _)
SumExpected(ranges, lo, hi) ==
    IF lo > hi THEN 0
    ELSE IF lo = hi THEN ranges[lo].expected
    ELSE LET mid == (lo + hi) \div 2
         IN  SumExpected(ranges, lo, mid) + SumExpected(ranges, mid + 1, hi)

\* C27: for total_size >= 1 there are ceil(total_size / chunk_size) ranges; they
\* are non-empty, start at 0, follow one another without gap, are pairwise
\* disjoint, the last one ends at total_size - 1, and the expected byte counts
\* are end - start + 1 and sum to total_size
C27_RangesPartition ==
    (call.op = "layout" /\ total_size >= 1) =>
       LET ranges == call.ret
           size == calculate_chunk_size(total_size)
           n == CHOOSE k \in 1 .. (total_size \div size + 1) :
                   k * size >= total_size /\ (k - 1) * size < total_size
       IN  /\ DOMAIN ranges = 0 .. (n - 1)
           /\ ranges[0].start = 0
           /\ ranges[n - 1].end = total_size - 1
           /\ \A i \in 0 .. (n - 1) :
                 /\ ranges[i].start <= ranges[i].end
                 /\ ranges[i].expected = ranges[i].end - ranges[i].start + 1
           /\ \A i \in 0 .. (n - 2) : ranges[i + 1].start = ranges[i].end + 1
           /\ \A i, j \in 0 .. (n - 1) : i < j => ranges[i].end < ranges[j].start
           /\ SumExpected(ranges, 0, n - 1) = total_size

\* the layout of a download one byte larger than two chunks: three ranges, the
\* last of one byte
C27_Witness ==
    /\ call.op = "layout"
    /\ total_size = 2 * (512 * 1024) + 1
    /\ DOMAIN call.ret = 0 .. 2
    /\ call.ret[2] = [start |-> 1048576, end |-> 1048576, expected |-> 1]

\* C28: in the registered metadata, downloaded_bytes is the sum of the sizes of
\* the record's completed_chunks while the state is not Completed, and
\* total_size when it is Completed
C28_RegisteredBytesMatchChunks ==
    active_downloads # NoMeta =>
       IF active_downloads.state = "Completed"
       THEN active_downloads.downloaded_bytes = total_size
       ELSE active_downloads.downloaded_bytes =
               SumSizes(active_downloads.completed_chunks)

DeleteCalled == call'.n = call.n + 1 /\ call'.op = "delete_state"

\* C30: a delete_state that returns Ok leaves no state file, so state_exists is
\* false and load_state fails with StateNotFound; when there was no state file
\* it returns Ok and changes nothing, as does a second call after a first
C30_DeleteState ==
    [][DeleteCalled =>
          /\ call'.ret = <<"Ok">> =>
                (state_file' = NoMeta /\ ~state_exists'
                   /\ load_state' = <<"Err", "StateNotFound">>)
          /\ ~state_exists => (call'.ret = <<"Ok">> /\ state_file' = state_file)
          /\ (call.op = "delete_state" /\ call.ret = <<"Ok">>) =>
                (call'.ret = call.ret /\ state_file' = state_file)]_vars

\* a state file was saved, deleted, and delete_state was called again
C30_Witness ==
    /\ call.op = "delete_state"
    /\ call.ret = <<"Ok">>
    /\ call.n = 3
    /\ ~state_exists

\* C31: of the seven states can_resume holds exactly for Paused and Stopped,
\* is_terminal exactly for Completed, Failed and Cancelled, is_active exactly
\* for Active, so no state is both resumable and terminal; and a new metadata
\* record is Pending with downloaded_bytes 0
C31_StatePredicates ==
    /\ call.op = "predicates" =>
          /\ call.arg \in {"Pending", "Active", "Paused", "Stopped", "Completed",
                           "Failed", "Cancelled"}
          /\ call.ret[1] <=> call.arg \in {"Paused", "Stopped"}
          /\ call.ret[2] <=> call.arg \in {"Completed", "Failed", "Cancelled"}
          /\ call.ret[3] <=> call.arg = "Active"
          /\ ~(call.ret[1] /\ call.ret[2])
    /\ call.op = "DownloadMetadata::new" =>
          (call.ret.state = "Pending" /\ call.ret.downloaded_bytes = 0)

\* the predicates were taken of Failed: terminal, not resumable, not active
C31_Witness ==
    /\ call.op = "predicates"
    /\ call.arg = "Failed"
    /\ call.ret = <<FALSE, TRUE, FALSE>>

WorkerMoves(w, from, to) == worker[w].pc = from /\ worker'[w].pc = to

\* C33: an attempt changes control.downloaded_bytes and completed_chunks only
\* if it ended with no error and bytes_this_attempt == expected: the steps of
\* an attempt up to the test leave both unchanged, the test passes only with no
\* error and the expected count, and a passed test is followed by one fetch_add
\* of expected_bytes and one push of the index
C33_AttemptEffect ==
    [][\A w \in Workers :
          /\ (\/ WorkerMoves(w, "attempt", "stream")
              \/ WorkerMoves(w, "attempt", "after")
              \/ WorkerMoves(w, "stream", "failcheck")
              \/ WorkerMoves(w, "stream", "fetchadd")
              \/ WorkerMoves(w, "failcheck", "attempt")
              \/ WorkerMoves(w, "failcheck", "after")) =>
                (/\ downloaded_bytes' = downloaded_bytes
                 /\ completed_chunks' = completed_chunks)
          /\ WorkerMoves(w, "stream", "fetchadd") =>
                (/\ worker'[w].chunk_ok
                 /\ ~worker'[w].stream_err
                 /\ worker'[w].bytes_this_attempt = ExpectedBytes(worker[w].idx))
          /\ WorkerMoves(w, "fetchadd", "push") =>
                (/\ downloaded_bytes' =
                      downloaded_bytes + ExpectedBytes(worker[w].idx)
                 /\ completed_chunks' = completed_chunks)
          /\ WorkerMoves(w, "push", "top") =>
                (/\ downloaded_bytes' = downloaded_bytes
                 /\ completed_chunks' = Append(completed_chunks, worker[w].idx))]_vars

\* the monitor of run r calls update_download at this step
MonitorWrites(r) == monitor[r].pc = "upd" /\ monitor'[r].pc # "upd"

\* C34: a monitor tick changes only the downloaded_bytes of the registered
\* metadata: its update_download leaves the state, completed_chunks and
\* incomplete_chunks of the record as they are and inserts no record for a
\* download that is not registered
C34_MonitorWritesBytesOnly ==
    [][\A r \in Runs :
          MonitorWrites(r) =>
             /\ active_downloads # NoMeta
             /\ active_downloads' # NoMeta
             /\ active_downloads'.state = active_downloads.state
             /\ active_downloads'.completed_chunks =
                   active_downloads.completed_chunks
             /\ active_downloads'.incomplete_chunks =
                   active_downloads.incomplete_chunks]_vars

\* run r was started by resume_download
Resumed(r) == run[r].pc # "none" /\ run[r].gen > 0

\* C35: a run started by resume fills its queue from metadata.incomplete_chunks,
\* which has no index of the metadata's completed_chunks at that time, and its
\* workers only ever hold indices of that list
C35_ResumedRunSkipsCompleted ==
    [][\A r \in Runs :
          /\ (Resumed(r) /\ run[r].pc = "spawned" /\ run'[r].pc = "join") =>
                /\ chunk_queue'[r] = run[r].meta.incomplete_chunks
                /\ run'[r].incomplete = run[r].meta.incomplete_chunks
                /\ Range(chunk_queue'[r])
                     \cap Range(run[r].meta.completed_chunks) = {}
          /\ Resumed(r) =>
                \A w \in Workers :
                   (w[1] = r /\ worker'[w].idx # NoChunk) =>
                      worker'[w].idx \in Range(run'[r].incomplete)]_vars

\* the resumed run was handed chunk 1 only, chunk 0 being completed, and its
\* worker is fetching chunk 1
C35_Witness ==
    \E w \in Workers :
       /\ Resumed(w[1])
       /\ run[w[1]].incomplete = <<1>>
       /\ worker[w].idx = 1
       /\ worker[w].pc = "stream"

\* worker w holds a lease
Holds(w) == worker[w].idx # NoChunk

\* C36: in one engine run an index is never held by two workers at once, is
\* never twice in the queue, and is never in the queue while a worker holds it
\* or after the run has completed it
C36_LeaseExclusive ==
    \A r \in Runs :
       /\ NoDup(chunk_queue[r])
       /\ \A w1, w2 \in Workers :
             (w1[1] = r /\ w2[1] = r /\ w1 # w2 /\ Holds(w1) /\ Holds(w2)) =>
                worker[w1].idx # worker[w2].idx
       /\ \A i \in 1 .. Len(chunk_queue[r]) :
             /\ \A w \in Workers :
                   (w[1] = r /\ Holds(w)) => worker[w].idx # chunk_queue[r][i]
             /\ chunk_queue[r][i] \notin Range(completed_chunks)

\* chunk 0 is back on the queue after a lease of five failed attempts while
\* the other worker holds chunk 1
C36_Witness ==
    /\ chunk_queue[0] = <<0>>
    /\ faults_left = 0
    /\ chunk_retry_counts[0][0] = 1
    /\ \E w \in Workers : w[1] = 0 /\ worker[w].idx = 1 /\ worker[w].pc = "stream"

\* C37: a lease makes at most CHUNK_RETRY_LIMIT attempts; when it ends without
\* success the index goes to the tail of the queue if control.signal is 0 and
\* nowhere if it is not, and that is the only push of the lease: before its end
\* a worker holding an index leaves the queue as it is
C37_LeaseBoundedRequeueOnce ==
    [][\A w \in Workers :
          /\ worker'[w].attempts <= CHUNK_RETRY_LIMIT
          /\ (WorkerMoves(w, "after", "top") /\ signal = SIG_RUN) =>
                chunk_queue'[w[1]] = Append(chunk_queue[w[1]], worker[w].idx)
          /\ (WorkerMoves(w, "after", "top") /\ signal # SIG_RUN) =>
                chunk_queue' = chunk_queue
          /\ WorkerMoves(w, "after", "top") => ~Holds(w)'
          /\ (Holds(w) /\ worker'[w] # worker[w]
                /\ ~WorkerMoves(w, "after", "top")) =>
                chunk_queue' = chunk_queue]_vars

\* the fifth attempt of a lease has failed with signal 0 and the index is back
\* on the queue
C37_Witness ==
    \E r \in Runs :
       /\ chunk_queue[r] = <<0>>
       /\ chunk_retry_counts[r][0] = 1
       /\ faults_left = 0
       /\ signal = SIG_RUN
       /\ \A w \in Workers : w[1] = r => ~Holds(w)

\* C38: enforce_speed is set at the lease, true iff the lease count of the
\* index after its increment is below ADAPTIVE_RETRY_THRESHOLD, and stays as it
\* is until the lease ends; the counts of a run never decrease, so a lease of
\* an index whose count had reached the threshold has enforce_speed false
C38_EnforceSpeedPerLease ==
    [][/\ \A w \in Workers :
             /\ WorkerMoves(w, "pop", "attempt") =>
                  LET before == chunk_retry_counts[w[1]][worker'[w].idx]
                      after == chunk_retry_counts'[w[1]][worker'[w].idx]
                  IN  /\ after > before \/ before > ADAPTIVE_RETRY_THRESHOLD
                      /\ worker'[w].enforce <=> after < ADAPTIVE_RETRY_THRESHOLD
                      /\ before >= ADAPTIVE_RETRY_THRESHOLD => ~worker'[w].enforce
             /\ (Holds(w) /\ Holds(w)') =>
                  /\ worker'[w].idx = worker[w].idx
                  /\ worker'[w].enforce = worker[w].enforce
       /\ \A r \in Runs :
             \A c \in DOMAIN chunk_retry_counts[r] :
                chunk_retry_counts'[r][c] >= chunk_retry_counts[r][c]]_vars

\* an attempt of a lease made after the count had reached the threshold
C38_Witness ==
    \E w \in Workers :
       /\ Holds(w)
       /\ chunk_retry_counts[w[1]][worker[w].idx] = ADAPTIVE_RETRY_THRESHOLD + 1
       /\ ~worker[w].enforce
       /\ worker[w].attempts = 1

\* run r has been spawned; it has been spawned and has not returned
Spawned(r) == run[r].pc # "none"
Running(r) == Spawned(r) /\ run[r].pc # "returned"

\* C39: no two engine runs of the download are given the same generation, so
\* at most one run at a time has the generation of the control block; in
\* particular two resume_download calls on the same Paused or Stopped record do
\* not both spawn a run of the current generation
C39_RunsHaveDistinctGenerations ==
    \A r1, r2 \in Runs :
       (r1 # r2 /\ Spawned(r1) /\ Spawned(r2)) =>
          /\ run[r1].gen # run[r2].gen
          /\ (Running(r1) /\ Running(r2)) =>
                ~(run[r1].gen = generation /\ run[r2].gen = generation)

\* run r reads control.signal after the join of its workers at this step
ReadsFinalSignal(r) == run[r].pc = "join" /\ run'[r].pc # "join"

\* C40: an engine run that joins its workers after a resume has started a newer
\* generation returns with a signal status: it does not go on to the integrity
\* verification and the completion path
C40_OldRunSkipsCompletion ==
    [][\A r \in Runs :
          (ReadsFinalSignal(r) /\ run[r].gen < generation) =>
             /\ run'[r].pc = "returned"
             /\ run'[r].status \in {"paused", "stopped", "cancelled"}]_vars

=============================================================================
